---- MODULE Spec2Model ----
(***************************************************************************)
(* State-machine model of the message relay and autonomous-reply engine   *)
(* of the Jarvis assistant:                                                *)
(*   - the Change Detector of friday/integrations/whatsapp_service.py      *)
(*     (chat-list polling, fingerprints, message-level dedup);             *)
(*   - the Reply Decision Engine and the Pending-Reply / Quick-Reply       *)
(*     resolution of friday/main.py;                                       *)
(*   - the connector services with their polling loop, send and shutdown;  *)
(*   - the context window, the utterance pool and the Chat Store.          *)
(* Each part has its own specifications over the shared variables.        *)
(***************************************************************************)
EXTENDS Integers, Sequences, FiniteSets, TLC

None == "none"

\* Python None where a dict is expected (pending_whatsapp_message).
NoMessage == [src |-> None]

\* State of the Change Detector and of its connector.
VARIABLES
    convo,                  \* connector: chat -> sequence of raw messages
    unread,                 \* connector: chat -> unread indicator shown
    last_message_previews,  \* Dict[str, str], None = key absent
    last_seen_messages,     \* Dict[str, str], None = key absent
    ppc,                    \* position of the monitor thread
    scan_idx,               \* loop index of the chat-list scan
    new_messages,           \* list returned by _check_for_new_messages
    db,                     \* Chat Store rows, in insertion order
    surfaced,               \* notifications triggered, in order
    scan_errors             \* chats whose processing raised in this cycle

pollVars == <<convo, unread, last_message_previews, last_seen_messages,
              ppc, scan_idx, new_messages, db, surfaced, scan_errors>>

\* State of the FridayApp decision engine and of its threads.
VARIABLES
    whatsapp_enabled,
    waiting_for_whatsapp_reply,
    pending_whatsapp_message,   \* None or the dict; "src" is the dict's identity
    last_whatsapp_contact,
    whatsapp_conversations,     \* contact -> list of tagged lines
    dpc,                        \* decision thread of a notification: position
    dresp,                      \* its Completion Service answer (index), 0 = none
    upc,                        \* utterance thread: position
    utext,                      \* its utterance (index) while it runs, else 0
    uroute,                     \* the branch of _process_user_message taken
    uloc,                       \* locals of _rewrite_and_send_whatsapp_reply
    sends,                      \* calls of whatsapp.send_message made
    send_threads,               \* _handle_whatsapp_send: sends handed to a thread
    notices                     \* messages shown in the conversation view

appVars == <<whatsapp_enabled, waiting_for_whatsapp_reply, pending_whatsapp_message,
             last_whatsapp_contact, whatsapp_conversations, dpc, dresp, upc, utext,
             uroute, uloc, sends, send_threads, notices>>

\* State used by the specifications of single operations.
VARIABLES
    appends                     \* calls of _add_to_conversation_history per contact

\* State of a connector service (WhatsAppService or WhatsAppWebJSService) and
\* of the threads that use it.
VARIABLES
    service,                    \* the class of self.whatsapp
    is_running,
    stop_event,
    monitor_thread,             \* the loop self.monitor_thread refers to, 0 = None
    loops,                      \* _monitor_messages threads: position
    driver_lock,                \* holder of self.driver_lock
    driver_ops,                 \* operations in progress on the connector session
    session_open,               \* the browser / the bridge process is up
    startpc,                    \* _start_whatsapp threads: position
    stoppc,                     \* the stop() in progress: position
    stop_by,                    \* what called it
    spc,                        \* the send_message call: position
    attempt,                    \* its loop variable
    send_log,                   \* what the call has done, in order
    send_result,                \* its return value, as text
    hpc,                        \* the check_health call: position
    signalled                   \* loops that were running when stop() was called

connVars == <<service, is_running, stop_event, monitor_thread, loops, driver_lock,
              driver_ops, session_open, startpc, stoppc, stop_by, spc, attempt,
              send_log, send_result, hpc, signalled>>

\* The User Utterance Pool of FridayApp and the clock it reads.
VARIABLES
    user_context,               \* list of {'text', 'timestamp'}
    now,                        \* time.time(), in seconds
    context_appends,            \* calls of _add_user_context made
    user_context_text           \* result of the last _get_user_context_text

ctxVars == <<user_context, now, context_appends, user_context_text>>

\* General conversation of an utterance thread with the Completion Service.
VARIABLES
    ai_response                 \* the answer received (index) and the text shown

genVars == <<ai_response>>

\* The Chat Store (WhatsAppDatabase) and the calls made on it.
VARIABLES
    messages,                   \* rows of the table "messages", keyed by id
    store_call,                 \* the last call made on the store
    unread_result               \* rows returned by the last get_unread_messages

storeVars == <<messages, store_call, unread_result>>

\* The status events of the main window.
VARIABLES
    status_updates              \* utterance thread -> statuses it has emitted

guiVars == <<status_updates>>

\* Threads inside _add_to_conversation_history, statement by statement.
VARIABLES
    conversation_keys,          \* keys of the dict self.whatsapp_conversations
    apc,                        \* thread -> position in the function
    aloc                        \* thread -> the slice computed at line 583

raceVars == <<conversation_keys, apc, aloc>>

\* What the utterance threads that emit a status leave unchanged.
extOther == <<appends, connVars, ctxVars, genVars, storeVars, raceVars>>

extVars == <<extOther, guiVars>>

vars == <<pollVars, appVars, extVars>>

(***************************************************************************)
(* Part 1.  Change Detector (WhatsAppService)                              *)
(***************************************************************************)

\* Bounds of the connector's environment.
MaxArrivals == 3

\* The visible chat list, in scan order, and the raw message texts.
ChatOrder == <<"c1", "c2">>
Chats == {ChatOrder[i] : i \in DOMAIN ChatOrder}
Texts == {"a", "b"}

\* Program constants.
ScanLimit == 20
ReadLimit == 10

\* The preview text the chat list shows for a chat: that of its last message.
PreviewOf(text) == CASE text = "a" -> "preview a" [] text = "b" -> "preview b"

ChatPreview(c) ==
    IF convo[c] = <<>> THEN None ELSE PreviewOf(convo[c][Len(convo[c])].text)

\* message_elements[-limit:] with the raw position of each element kept.
RecentWindow(c, limit) ==
    LET n == Len(convo[c])
        first == IF n > limit THEN n - limit + 1 ELSE 1
    IN  [k \in 1..(n - first + 1) |->
            [idx |-> first + k - 1,
             text |-> convo[c][first + k - 1].text,
             from_me |-> convo[c][first + k - 1].from_me]]

\* The loop body of _read_current_chat_messages over the window: the pair
\* <<messages collected, last seen text>> after element k.
RECURSIVE ReadLoop(_, _, _, _)
ReadLoop(c, window, k, seen) ==
    IF k = 0 THEN [messages |-> <<>>, seen |-> seen]
    ELSE LET before == ReadLoop(c, window, k - 1, seen)
             m == window[k]
         IN  IF before.seen # None /\ m.text = before.seen
             THEN before
             ELSE [messages |->
                       IF ~m.from_me
                       THEN Append(before.messages,
                                   [chat |-> c, idx |-> m.idx, content |-> m.text])
                       ELSE before.messages,
                   seen |-> m.text]

ReadCurrentChatMessages(c) ==
    LET window == RecentWindow(c, ReadLimit)
    IN  ReadLoop(c, window, Len(window), last_seen_messages[c])

TotalArrivals == Len(convo["c1"]) + Len(convo["c2"])

PollInit ==
    /\ convo = [c \in Chats |-> <<>>]
    /\ unread = [c \in Chats |-> FALSE]
    /\ last_message_previews = [c \in Chats |-> None]
    /\ last_seen_messages = [c \in Chats |-> None]
    /\ ppc = "sleep"
    /\ scan_idx = 0
    /\ new_messages = <<>>
    /\ db = <<>>
    /\ surfaced = <<>>
    /\ scan_errors = {}

\* Environment: a message is added to a conversation; an incoming one raises
\* the unread indicator of its chat.
Arrive(c, text, from_me) ==
    /\ UNCHANGED <<appVars, extVars>>
    /\ TotalArrivals < MaxArrivals
    /\ convo' = [convo EXCEPT ![c] = Append(@, [text |-> text, from_me |-> from_me])]
    /\ unread' = [unread EXCEPT ![c] = IF from_me THEN @ ELSE TRUE]
    /\ UNCHANGED <<last_message_previews, last_seen_messages, ppc, scan_idx,
                   new_messages, db, surfaced, scan_errors>>

\* _monitor_messages: one pass of the loop calls _check_for_new_messages.
PollStart ==
    /\ UNCHANGED <<appVars, extVars>>
    /\ ppc = "sleep"
    /\ ppc' = "scan"
    /\ scan_idx' = 1
    /\ new_messages' = <<>>
    /\ scan_errors' = {}
    /\ UNCHANGED <<convo, unread, last_message_previews, last_seen_messages,
                   db, surfaced>>

\* A scan loop that an exception in one chat ends.
ScanAdvance_AbortOnError(outcome) ==
    /\ scan_idx' = IF outcome = "ok" THEN scan_idx + 1 ELSE Len(ChatOrder) + 1
    /\ ppc' = "scan"

\* Lines 416-421: both except clauses of the loop body continue with the next
\* chat of the list, like the normal end of the body.
ScanAdvance(outcome) ==
    /\ scan_idx' = scan_idx + 1
    /\ ppc' = "scan"

\* A detector without the baseline rule of lines 410-414: the first observation
\* of a chat is treated like a change and the chat is read.
ScanChatBody_NoBaseline(c, read_ok) ==
    LET message_preview == ChatPreview(c)
        read == ReadCurrentChatMessages(c)
    IN  IF ~unread[c] \/ message_preview = None
        THEN UNCHANGED <<unread, last_message_previews, last_seen_messages,
                         new_messages>>
        ELSE IF last_message_previews[c] = message_preview
        THEN UNCHANGED <<unread, last_message_previews, last_seen_messages,
                         new_messages>>
        ELSE /\ last_message_previews' =
                    [last_message_previews EXCEPT ![c] = message_preview]
             /\ unread' = [unread EXCEPT ![c] = FALSE]
             /\ IF read_ok
                THEN /\ last_seen_messages' =
                            [last_seen_messages EXCEPT ![c] = read.seen]
                     /\ new_messages' = new_messages \o read.messages
                ELSE UNCHANGED <<last_seen_messages, new_messages>>

\* The fingerprint comparison of one chat of the list (lines 386-414).
ScanChatBody(c, read_ok) ==
    LET message_preview == ChatPreview(c)
        read == ReadCurrentChatMessages(c)
    IN  IF ~unread[c] \/ message_preview = None
        THEN UNCHANGED <<unread, last_message_previews, last_seen_messages,
                         new_messages>>
        ELSE IF last_message_previews[c] = None
        THEN /\ last_message_previews' =
                    [last_message_previews EXCEPT ![c] = message_preview]
             /\ UNCHANGED <<unread, last_seen_messages, new_messages>>
        ELSE IF last_message_previews[c] = message_preview
        THEN UNCHANGED <<unread, last_message_previews, last_seen_messages,
                         new_messages>>
        ELSE /\ last_message_previews' =
                    [last_message_previews EXCEPT ![c] = message_preview]
             /\ unread' = [unread EXCEPT ![c] = FALSE]
             /\ IF read_ok
                THEN /\ last_seen_messages' =
                            [last_seen_messages EXCEPT ![c] = read.seen]
                     /\ new_messages' = new_messages \o read.messages
                ELSE UNCHANGED <<last_seen_messages, new_messages>>

\* The loop body reaches chat.click() and _read_current_chat_messages.
OpensChat(c) ==
    /\ unread[c]
    /\ ChatPreview(c) # None
    /\ last_message_previews[c] \notin {None, ChatPreview(c)}

\* One pass of the loop body of lines 313-421 for the chat at scan_idx: it
\* ends normally, raises before the fingerprints are touched, or raises when
\* the chat is opened and read.
ScanChat ==
    /\ UNCHANGED <<appVars, extVars>>
    /\ ppc = "scan"
    /\ scan_idx <= Len(ChatOrder)
    /\ scan_idx <= ScanLimit
    /\ \E outcome \in {"ok", "scan_raised", "read_raised"} :
          LET c == ChatOrder[scan_idx]
          IN  /\ outcome = "read_raised" => OpensChat(c)
              /\ IF outcome = "scan_raised"
                 THEN UNCHANGED <<unread, last_message_previews, last_seen_messages,
                                  new_messages>>
                 ELSE ScanChatBody(c, outcome = "ok")
              /\ scan_errors' = IF outcome = "ok" THEN scan_errors
                                ELSE scan_errors \cup {c}
              /\ ScanAdvance(outcome)
    /\ UNCHANGED <<convo, db, surfaced>>

\* The scan is over: _check_for_new_messages returns new_messages.
ScanDone ==
    /\ UNCHANGED <<appVars, extVars>>
    /\ ppc = "scan"
    /\ (scan_idx > Len(ChatOrder) \/ scan_idx > ScanLimit)
    /\ ppc' = IF new_messages = <<>> THEN "sleep" ELSE "save"
    /\ scan_idx' = 1
    /\ UNCHANGED <<convo, unread, last_message_previews, last_seen_messages,
                   new_messages, db, surfaced, scan_errors>>

\* _monitor_messages, line 239: self.db.save_message(message).
SaveMessage ==
    /\ UNCHANGED <<appVars, extVars>>
    /\ ppc = "save"
    /\ db' = Append(db, new_messages[scan_idx])
    /\ ppc' = "notify"
    /\ UNCHANGED <<convo, unread, last_message_previews, last_seen_messages,
                   scan_idx, new_messages, surfaced, scan_errors>>

\* _monitor_messages, line 245: self._trigger_notification(message).
TriggerNotification ==
    /\ UNCHANGED <<appVars, extVars>>
    /\ ppc = "notify"
    /\ surfaced' = Append(surfaced, new_messages[scan_idx])
    /\ IF scan_idx < Len(new_messages)
       THEN /\ scan_idx' = scan_idx + 1
            /\ ppc' = "save"
       ELSE /\ scan_idx' = 0
            /\ ppc' = "sleep"
    /\ UNCHANGED <<convo, unread, last_message_previews, last_seen_messages,
                   new_messages, db, scan_errors>>

PollNext ==
    \/ \E c \in Chats, text \in Texts, from_me \in BOOLEAN : Arrive(c, text, from_me)
    \/ PollStart
    \/ ScanChat
    \/ ScanDone
    \/ SaveMessage
    \/ TriggerNotification

(***************************************************************************)
(* Part 2.  Reply Decision Engine and Pending-Reply resolution (FridayApp) *)
(***************************************************************************)

\* Program constants.
max_history_per_contact == 50
PreviewChars == 100
QuickReplyMaxTokens == 15

\* One thread per user utterance (_handle_user_message) and one decision
\* thread per notification (_on_whatsapp_notification).
Users == {"u1", "u2"}
Notifs == {"n1", "n2"}

\* Message bodies: "short" fits in 100 characters, "long" does not and
\* "long[:100]" is its first 100 characters.
Truncate(content, limit) ==
    IF content = "long" /\ limit = PreviewChars THEN "long[:100]" ELSE content

\* The incoming messages behind the two notifications (WhatsAppMessage).
IncomingMessage ==
    [n1 |-> [chat_name |-> "Chen", sender_name |-> "Chen", content |-> "short"],
     n2 |-> [chat_name |-> "Team", sender_name |-> "Bob", content |-> "long"]]

\* _trigger_notification: the WhatsAppNotification built from a message.
Notification(n) ==
    [chat_name |-> IncomingMessage[n].chat_name,
     sender_name |-> IncomingMessage[n].sender_name,
     message_preview |-> Truncate(IncomingMessage[n].content, PreviewChars)]

Contacts == {"Chen", "Team", "chen"}

\* str.upper() / str.lower() on the words the code compares.
Upper(w) == CASE w = "yes" -> "YES" [] w = "no" -> "NO" [] OTHER -> w
Lower(w) == CASE w = "Tell" -> "tell" [] w = "Chen" -> "chen" [] OTHER -> w

\* Completion Service answers to the decision prompt, as lists of raw lines.
\* The code-fence line (three backquotes).
Fence == "[fence]"
Responses ==
    << <<"NO", "NO", "summary">>,
       <<"YES", "yes", "Chen", "reply", "summary">>,
       <<"NO", "NO">>,
       <<Fence, "YES", "NO", "", "summary", Fence>>,
       <<Fence, "NO", "NO", Fence>>,
       <<"YES", "MAYBE", "summary">>,
       <<"MAYBE", "YES", "Chen", "reply", "summary">>,
       <<"NO", "YES", "Chen", "reply">> >>

\* User utterances, as lists of words.
Utterances ==
    << <<"sure", "works", "for", "me">>,
       <<"Tell", "Chen", "running", "late">>,
       <<"tell", "me", "more">>,
       <<"what", "time", "is", "it">>,
       <<"send", "it", "now">>,
       [i \in 1..16 |-> "word"] >>

RECURSIVE DropLeadingBlank(_)
DropLeadingBlank(ls) ==
    IF ls # <<>> /\ Head(ls) = "" THEN DropLeadingBlank(Tail(ls)) ELSE ls

RECURSIVE DropTrailingBlank(_)
DropTrailingBlank(ls) ==
    IF ls # <<>> /\ ls[Len(ls)] = ""
    THEN DropTrailingBlank(SubSeq(ls, 1, Len(ls) - 1)) ELSE ls

\* str.strip() of a text given as its lines.
Strip(ls) == DropTrailingBlank(DropLeadingBlank(ls))

RECURSIVE NonEmptyLines(_)
NonEmptyLines(ls) ==
    IF ls = <<>> THEN <<>>
    ELSE IF Head(ls) = "" THEN NonEmptyLines(Tail(ls))
    ELSE <<Head(ls)>> \o NonEmptyLines(Tail(ls))

\* Lines 674-686 of _process_whatsapp_with_ai: strip, drop an opening and a
\* closing code fence, keep the non-empty lines.
ParseLines(response) ==
    LET cleaned == Strip(response)
        opened == IF cleaned # <<>> /\ Head(cleaned) = Fence /\ Len(cleaned) > 1
                  THEN Tail(cleaned) ELSE cleaned
        closed == IF opened # <<>> /\ opened[Len(opened)] = Fence /\ Len(opened) > 1
                  THEN SubSeq(opened, 1, Len(opened) - 1) ELSE opened
    IN  NonEmptyLines(Strip(closed))

\* A decision that accepts an answer of two lines.
DecisionBranch_TwoLines(lines) ==
    IF Len(lines) < 2 THEN "too_few"
    ELSE IF Upper(lines[2]) = "YES"
         THEN IF Len(lines) < 5 THEN "too_few_reply" ELSE "send"
         ELSE "wait_for_user"

\* What the decision does with the parsed lines (lines 690-735).
DecisionBranch(lines) ==
    IF Len(lines) < 3 THEN "too_few"
    ELSE IF Upper(lines[2]) = "YES"
         THEN IF Len(lines) < 5 THEN "too_few_reply" ELSE "send"
         ELSE "wait_for_user"

speak_aloud(lines) == Upper(lines[1]) = "YES"

\* Lines 155-164 of _process_user_message: the "tell <name> <text>" pattern.
excluded_tell_words ==
    {"me", "us", "everyone", "somebody", "someone", "about", "what", "how",
     "why", "when", "where"}

HasComma(w) == w \in {"chen,", "bob,"}

TellMatch(text) ==
    /\ Len(text) >= 3
    /\ Lower(text[1]) = "tell"
    /\ ~HasComma(text[2])

potential_contact(text) == Lower(text[2])

TellDirective(text, enabled) ==
    /\ TellMatch(text)
    /\ enabled
    /\ potential_contact(text) \notin excluded_tell_words

\* Built-in intents checked after the pending slot (lines 189-215), on the
\* words that trigger them.
HandleSystemControlIntent(text) == \E i \in DOMAIN text : Lower(text[i]) = "open"

HandleDatetimeQuery(text) ==
    \E i \in 1..(Len(text) - 3) :
        /\ Lower(text[i]) = "what" /\ Lower(text[i + 1]) = "time"
        /\ Lower(text[i + 2]) = "is" /\ Lower(text[i + 3]) = "it"

HandleCalendarIntent(text) ==
    \E i \in DOMAIN text : Lower(text[i]) \in {"calendar", "schedule", "meetings"}

HandleSearchIntent(text) ==
    \E i \in DOMAIN text :
        Lower(text[i]) \in {"weather", "stock", "price", "find", "check", "update"}

BuiltinIntent(text) ==
    \/ HandleSystemControlIntent(text)
    \/ HandleDatetimeQuery(text)
    \/ HandleCalendarIntent(text)
    \/ HandleSearchIntent(text)

\* Line 301 of _handle_whatsapp_intent: the command keywords.
ContainsKeyword(text) ==
    \/ \E i \in DOMAIN text : Lower(text[i]) \in {"send", "search", "check"}
    \/ \E i \in 1..(Len(text) - 1) :
          \/ Lower(text[i]) = "what" /\ Lower(text[i + 1]) = "did"
          \/ Lower(text[i]) = "show" /\ Lower(text[i + 1]) = "messages"

\* Lines 299-301: the quick-reply condition.
QuickReply(text, last_contact) ==
    /\ last_contact # None
    /\ Len(text) <= QuickReplyMaxTokens
    /\ ~ContainsKeyword(text)

\* A context window that keeps the first 50 lines instead of the last 50.
AddToConversationHistory_KeepOldest(history, contact_name, line) ==
    LET appended == Append(history[contact_name], line)
        kept == IF Len(appended) > max_history_per_contact
                THEN SubSeq(appended, 1, max_history_per_contact)
                ELSE appended
    IN  [history EXCEPT ![contact_name] = kept]

\* Lines 572-583: append a tagged line, keep the last 50.
AddToConversationHistory(history, contact_name, line) ==
    LET appended == Append(history[contact_name], line)
        kept == IF Len(appended) > max_history_per_contact
                THEN SubSeq(appended, Len(appended) - max_history_per_contact + 1,
                            Len(appended))
                ELSE appended
    IN  [history EXCEPT ![contact_name] = kept]

Lines(n) == ParseLines(Responses[dresp[n]])

AppInit ==
    /\ whatsapp_enabled = FALSE
    /\ waiting_for_whatsapp_reply = FALSE
    /\ pending_whatsapp_message = NoMessage
    /\ last_whatsapp_contact = None
    /\ whatsapp_conversations = [c \in Contacts |-> <<>>]
    /\ dpc = [n \in Notifs |-> "idle"]
    /\ dresp = [n \in Notifs |-> 0]
    /\ upc = [u \in Users |-> "idle"]
    /\ utext = [u \in Users |-> 0]
    /\ uroute = [u \in Users |-> None]
    /\ uloc = [u \in Users |-> NoMessage]
    /\ sends = {}
    /\ send_threads = {}
    /\ notices = {}

\* _start_whatsapp (lines 514-517) and _handle_whatsapp_toggle (498-501).
EnableWhatsApp ==
    /\ ~whatsapp_enabled
    /\ whatsapp_enabled' = TRUE
    /\ UNCHANGED <<pollVars, extVars, waiting_for_whatsapp_reply, pending_whatsapp_message,
                   last_whatsapp_contact, whatsapp_conversations, dpc, dresp, upc,
                   utext, uroute, uloc, sends, send_threads, notices>>

DisableWhatsApp ==
    /\ whatsapp_enabled
    /\ whatsapp_enabled' = FALSE
    /\ UNCHANGED <<pollVars, extVars, waiting_for_whatsapp_reply, pending_whatsapp_message,
                   last_whatsapp_contact, whatsapp_conversations, dpc, dresp, upc,
                   utext, uroute, uloc, sends, send_threads, notices>>

\* _on_whatsapp_notification: the [THEM] line, then the decision thread.
OnWhatsappNotification(n) ==
    /\ dpc[n] = "idle"
    /\ whatsapp_enabled
    /\ whatsapp_conversations' =
           AddToConversationHistory(whatsapp_conversations, Notification(n).chat_name,
                                    [dir |-> "THEM", by |-> n])
    /\ dpc' = [dpc EXCEPT ![n] = "call"]
    /\ UNCHANGED <<pollVars, extVars, whatsapp_enabled, waiting_for_whatsapp_reply,
                   pending_whatsapp_message, last_whatsapp_contact, dresp, upc, utext,
                   uroute, uloc, sends, send_threads, notices>>

\* _process_whatsapp_with_ai, lines 669-701: the answer arrives and is parsed.
ProcessWithAI_Parse(n, r) ==
    LET branch == DecisionBranch(ParseLines(Responses[r]))
    IN  /\ dresp' = [dresp EXCEPT ![n] = r]
        /\ dpc' = [dpc EXCEPT ![n] =
                      CASE branch = "send" -> "send"
                        [] branch = "wait_for_user" -> "set_flag"
                        [] OTHER -> "done"]

ProcessWithAI_Complete(n) ==
    /\ dpc[n] = "call"
    /\ \E r \in DOMAIN Responses : ProcessWithAI_Parse(n, r)
    /\ UNCHANGED <<pollVars, extVars, whatsapp_enabled, waiting_for_whatsapp_reply,
                   pending_whatsapp_message, last_whatsapp_contact,
                   whatsapp_conversations, upc, utext, uroute, uloc, sends,
                   send_threads, notices>>

\* A failure path that also empties the Pending Reply Slot and the pointer.
ProcessWithAI_Error_ClearSlot(n) ==
    /\ dpc[n] = "call"
    /\ notices' = notices \cup {[by |-> n, kind |-> "decision_error", text |-> None]}
    /\ dpc' = [dpc EXCEPT ![n] = "done"]
    /\ waiting_for_whatsapp_reply' = FALSE
    /\ pending_whatsapp_message' = NoMessage
    /\ last_whatsapp_contact' = None
    /\ UNCHANGED <<pollVars, extVars, whatsapp_enabled, whatsapp_conversations, dresp,
                   upc, utext, uroute, uloc, sends, send_threads>>

\* Lines 762-768: chat_completion raised.
ProcessWithAI_Error(n) ==
    /\ dpc[n] = "call"
    /\ notices' = notices \cup {[by |-> n, kind |-> "decision_error", text |-> None]}
    /\ dpc' = [dpc EXCEPT ![n] = "done"]
    /\ UNCHANGED <<pollVars, extVars, whatsapp_enabled, waiting_for_whatsapp_reply,
                   pending_whatsapp_message, last_whatsapp_contact,
                   whatsapp_conversations, dresp, upc, utext, uroute, uloc, sends,
                   send_threads>>

\* A decision that records the reply whatever send_message returned.
ProcessWithAI_Send_IgnoreResult(n) ==
    /\ dpc[n] = "send"
    /\ \E ok \in BOOLEAN :
          /\ sends' = sends \cup {[by |-> n, to |-> Lines(n)[3], text |-> Lines(n)[4],
                                   kind |-> "auto", src |-> None, ok |-> ok]}
          /\ dpc' = [dpc EXCEPT ![n] = "sent_ok"]
    /\ UNCHANGED <<pollVars, extVars, whatsapp_enabled, waiting_for_whatsapp_reply,
                   pending_whatsapp_message, last_whatsapp_contact,
                   whatsapp_conversations, dresp, upc, utext, uroute, uloc,
                   send_threads, notices>>

\* Line 710: success = self.whatsapp.send_message(send_to, message_text).
ProcessWithAI_Send(n) ==
    /\ dpc[n] = "send"
    /\ \E ok \in BOOLEAN :
          /\ sends' = sends \cup {[by |-> n, to |-> Lines(n)[3], text |-> Lines(n)[4],
                                   kind |-> "auto", src |-> None, ok |-> ok]}
          /\ dpc' = [dpc EXCEPT ![n] = IF ok THEN "sent_ok" ELSE "done"]
    /\ UNCHANGED <<pollVars, extVars, whatsapp_enabled, waiting_for_whatsapp_reply,
                   pending_whatsapp_message, last_whatsapp_contact,
                   whatsapp_conversations, dresp, upc, utext, uroute, uloc,
                   send_threads, notices>>

\* Lines 712-732: the reply is recorded and shown.
ProcessWithAI_Sent(n) ==
    /\ dpc[n] = "sent_ok"
    /\ whatsapp_conversations' =
           AddToConversationHistory(whatsapp_conversations, Lines(n)[3],
                                    [dir |-> "YOU", by |-> n])
    /\ notices' = notices \cup {[by |-> n, kind |-> "auto_replied", text |-> Lines(n)[5]]}
    /\ dpc' = [dpc EXCEPT ![n] = "done"]
    /\ UNCHANGED <<pollVars, extVars, whatsapp_enabled, waiting_for_whatsapp_reply,
                   pending_whatsapp_message, last_whatsapp_contact, dresp, upc, utext,
                   uroute, uloc, sends, send_threads>>

\* Line 742.
ProcessWithAI_SetFlag(n) ==
    /\ dpc[n] = "set_flag"
    /\ waiting_for_whatsapp_reply' = TRUE
    /\ dpc' = [dpc EXCEPT ![n] = "set_record"]
    /\ UNCHANGED <<pollVars, extVars, whatsapp_enabled, pending_whatsapp_message,
                   last_whatsapp_contact, whatsapp_conversations, dresp, upc, utext,
                   uroute, uloc, sends, send_threads, notices>>

\* A slot record that keeps the whole text of the message.
PendingRecord_FullText(n) ==
    [contact |-> Notification(n).chat_name,
     sender |-> Notification(n).sender_name,
     original_message |-> IncomingMessage[n].content,
     src |-> n]

\* Lines 743-747.
PendingRecord(n) ==
    [contact |-> Notification(n).chat_name,
     sender |-> Notification(n).sender_name,
     original_message |-> Notification(n).message_preview,
     src |-> n]

ProcessWithAI_SetRecord(n) ==
    /\ dpc[n] = "set_record"
    /\ pending_whatsapp_message' = PendingRecord(n)
    /\ dpc' = [dpc EXCEPT ![n] = "notify"]
    /\ UNCHANGED <<pollVars, extVars, whatsapp_enabled, waiting_for_whatsapp_reply,
                   last_whatsapp_contact, whatsapp_conversations, dresp, upc, utext,
                   uroute, uloc, sends, send_threads, notices>>

\* Lines 750-756: the summary is shown, the last contact remembered.
ProcessWithAI_NotifyUser(n) ==
    /\ dpc[n] = "notify"
    /\ notices' = notices \cup {[by |-> n, kind |-> "need_input", text |-> Lines(n)[3]]}
    /\ last_whatsapp_contact' = Notification(n).chat_name
    /\ dpc' = [dpc EXCEPT ![n] = "done"]
    /\ UNCHANGED <<pollVars, extVars, whatsapp_enabled, waiting_for_whatsapp_reply,
                   pending_whatsapp_message, whatsapp_conversations, dresp, upc, utext,
                   uroute, uloc, sends, send_threads>>

\* Lines 170-174: the record a tell directive puts in the slot.
TellRecord(u, text) ==
    [contact |-> potential_contact(text),
     sender |-> potential_contact(text),
     original_message |-> "(Direct message via Tell command)",
     src |-> u]

\* A router without the pending-slot test of line 182.
RouteOf_NoPending(text, enabled, waiting, pending) ==
    IF TellDirective(text, enabled) THEN "tell"
    ELSE IF BuiltinIntent(text) THEN "builtin"
    ELSE "whatsapp_intent"

\* _process_user_message, lines 150-215: the order of the tests.
RouteOf(text, enabled, waiting, pending) ==
    IF TellDirective(text, enabled) THEN "tell"
    ELSE IF waiting /\ pending # NoMessage THEN "pending"
    ELSE IF BuiltinIntent(text) THEN "builtin"
    ELSE "whatsapp_intent"

ProcessUserMessage_Begin(u, t) ==
    LET text == Utterances[t]
        route == RouteOf(text, whatsapp_enabled, waiting_for_whatsapp_reply,
                         pending_whatsapp_message)
    IN  /\ upc[u] = "idle"
        /\ utext' = [utext EXCEPT ![u] = t]
        /\ uroute' = [uroute EXCEPT ![u] = route]
        /\ pending_whatsapp_message' =
               IF route = "tell" THEN TellRecord(u, text) ELSE pending_whatsapp_message
        /\ notices' = IF route = "builtin"
                      THEN notices \cup {[by |-> u, kind |-> "builtin", text |-> None]}
                      ELSE notices
        /\ upc' = [upc EXCEPT ![u] =
                      CASE route \in {"tell", "pending"} -> "rw_check"
                        [] route = "builtin" -> "ret"
                        [] OTHER -> "wa_intent"]
        /\ status_updates' = [status_updates EXCEPT ![u] = <<"Processing">>]
        /\ UNCHANGED <<pollVars, extOther, whatsapp_enabled, waiting_for_whatsapp_reply,
                       last_whatsapp_contact, whatsapp_conversations, dpc, dresp, uloc,
                       sends, send_threads>>

\* _handle_user_message starts a thread that runs _process_user_message.
ProcessUserMessage_Route(u) ==
    \E t \in DOMAIN Utterances : ProcessUserMessage_Begin(u, t)

\* Lines 316-365 of _handle_whatsapp_intent: explicit send and search commands.
OtherWhatsAppIntent(text) ==
    \/ \E i \in DOMAIN text : Lower(text[i]) = "whatsapp"
    \/ \E i \in 1..(Len(text) - 1) :
          \/ Lower(text[i]) = "what" /\ Lower(text[i + 1]) = "did"
          \/ Lower(text[i]) = "send" /\ \E j \in (i + 1)..Len(text) : Lower(text[j]) = "to"

\* Lines 217-222 and 299-301: the tests of the quick reply to the last contact.
WhatsAppIntentOf(text, enabled, last_contact) ==
    IF enabled /\ QuickReply(text, last_contact) THEN "quick"
    ELSE IF enabled /\ OtherWhatsAppIntent(text) THEN "command"
    ELSE "general"

ProcessUserMessage_WhatsAppIntent(u) ==
    LET text == Utterances[utext[u]]
        intent == WhatsAppIntentOf(text, whatsapp_enabled, last_whatsapp_contact)
    IN  /\ upc[u] = "wa_intent"
        /\ uroute' = [uroute EXCEPT ![u] = intent]
        /\ utext' = [utext EXCEPT ![u] = 0]
        /\ upc' = [upc EXCEPT ![u] =
                      CASE intent = "quick" -> "quick_send"
                        [] intent = "general" -> "general"
                        [] OTHER -> "done"]
        /\ UNCHANGED <<pollVars, extVars, whatsapp_enabled, waiting_for_whatsapp_reply,
                       pending_whatsapp_message, last_whatsapp_contact,
                       whatsapp_conversations, dpc, dresp, uloc, sends, send_threads,
                       notices>>

\* Lines 305-314: the pointer is read again for the request, _handle_whatsapp_send
\* (853-869) drops a request without contact, and the pointer is cleared.
QuickReply_Send(u) ==
    /\ upc[u] = "quick_send"
    /\ send_threads' =
           IF last_whatsapp_contact # None
           THEN send_threads \cup {[by |-> u, to |-> last_whatsapp_contact,
                                    text |-> "prefixed", kind |-> "quick"]}
           ELSE send_threads
    /\ last_whatsapp_contact' = None
    /\ upc' = [upc EXCEPT ![u] = "done"]
    /\ UNCHANGED <<pollVars, extVars, whatsapp_enabled, waiting_for_whatsapp_reply,
                   pending_whatsapp_message, whatsapp_conversations, dpc, dresp,
                   utext, uroute, uloc, sends, notices>>

\* self.max_user_context = 30 and the 300 seconds of _get_user_context_text.
max_user_context == 30
RecentSeconds == 300

\* A pool that drops, on append, the entries that are 300 seconds old or more.
AddUserContext_DropOld(pool, text, t) ==
    SelectSeq(Append(pool, [text |-> text, timestamp |-> t]),
              LAMBDA ctx : t - ctx.timestamp < RecentSeconds)

\* _add_user_context, lines 595-605: append (text, time.time()), keep the
\* last max_user_context entries.
AddUserContext(pool, text, t) ==
    LET appended == Append(pool, [text |-> text, timestamp |-> t])
    IN  IF Len(appended) > max_user_context
        THEN SubSeq(appended, Len(appended) - max_user_context + 1, Len(appended))
        ELSE appended

\* Answers of the Completion Service in general conversation, as lines: the
\* text of the line before a SEND_WHATSAPP:<contact>:<message> directive, and
\* the directive (contact None = no directive on the line).
TextLine(t) == [pre |-> t, contact |-> None, message |-> None]
DirectiveLine(t, c, m) == [pre |-> t, contact |-> c, message |-> m]
MalformedToken == "SEND_WHATSAPP:Chen"

AiResponses ==
    << <<TextLine("Okay")>>,
       <<TextLine("On it"), DirectiveLine("", "Chen", "hello")>>,
       <<DirectiveLine("", "Chen", "hello")>>,
       <<TextLine("Sorting it out"), DirectiveLine("Sure.", "Chen", "hello")>>,
       <<TextLine("Done"), DirectiveLine("", "Chen", "hello"),
         DirectiveLine("", "Team", "hi")>>,
       <<TextLine(MalformedToken)>> >>

\* Line 266: "SEND_WHATSAPP:" in response_text.
HasToken(lines) ==
    \E i \in DOMAIN lines : lines[i].contact # None \/ lines[i].pre = MalformedToken

\* Line 381: re.search returns the first match of the pattern.
RECURSIVE FirstDirective(_)
FirstDirective(lines) ==
    IF lines = <<>> THEN TextLine("")
    ELSE IF Head(lines).contact # None THEN Head(lines)
    ELSE FirstDirective(Tail(lines))

\* Line 396: re.sub(pattern, "", response_text).strip() removes every match
\* with the end of its line.
RECURSIVE RemoveDirectives(_)
RemoveDirectives(lines) ==
    IF lines = <<>> THEN <<>>
    ELSE IF Head(lines).contact = None
         THEN <<Head(lines)>> \o RemoveDirectives(Tail(lines))
    ELSE IF Head(lines).pre = "" THEN RemoveDirectives(Tail(lines))
    ELSE <<TextLine(Head(lines).pre)>> \o RemoveDirectives(Tail(lines))

\* _handle_ai_whatsapp_send, lines 378-402: the request sent, if any, and the
\* text returned.
HandleAiWhatsappSend(response_text) ==
    LET match == FirstDirective(response_text)
        clean_response == RemoveDirectives(response_text)
    IN  [match |-> match,
         text |-> IF clean_response # <<>> THEN clean_response ELSE response_text]

\* Lines 224-276: general conversation with the Completion Service.  The
\* utterance is stored in the pool; the answer r is received, or the call
\* raises (r = 0); a directive in the answer is handled and the text is shown
\* and spoken.
GeneralConversation(u, r) ==
    LET response_text == AiResponses[r]
        handled == HasToken(response_text) /\ whatsapp_enabled
        result == HandleAiWhatsappSend(response_text)
        cleaned_response == IF handled THEN result.text ELSE response_text
    IN  /\ upc[u] = "general"
        /\ user_context' = AddUserContext(user_context, u, now)
        /\ context_appends' = context_appends + 1
        /\ IF r = 0
           THEN /\ notices' = notices \cup {[by |-> u, kind |-> "error", text |-> None]}
                /\ status_updates' = [status_updates EXCEPT ![u] = Append(@, "Idle")]
                /\ UNCHANGED <<send_threads, ai_response>>
           ELSE /\ send_threads' =
                       IF handled /\ result.match.contact # None
                       THEN send_threads \cup
                                {[by |-> u, to |-> result.match.contact,
                                  text |-> result.match.message, kind |-> "ai"]}
                       ELSE send_threads
                /\ ai_response' =
                       [ai_response EXCEPT ![u] = [r |-> r, shown |-> cleaned_response]]
                /\ notices' = notices \cup
                       {[by |-> u, kind |-> "ai_response", text |-> None]}
                /\ status_updates' =
                       [status_updates EXCEPT ![u] = @ \o <<"Speaking", "Idle">>]
        /\ upc' = [upc EXCEPT ![u] = "done"]
        /\ UNCHANGED <<pollVars, appends, connVars, storeVars, raceVars, now,
                       user_context_text, whatsapp_enabled, waiting_for_whatsapp_reply,
                       pending_whatsapp_message, last_whatsapp_contact,
                       whatsapp_conversations, dpc, dresp, utext, uroute, uloc, sends>>

ProcessUserMessage_General(u, rs) ==
    \E r \in rs \cup {0} : GeneralConversation(u, r)

\* _send_whatsapp_message: the thread started by _handle_whatsapp_send.
SendWhatsappMessage(req) ==
    /\ req \in send_threads
    /\ send_threads' = send_threads \ {req}
    /\ \E ok \in BOOLEAN :
          /\ sends' = sends \cup {[by |-> req.by, to |-> req.to, text |-> req.text,
                                   kind |-> req.kind, src |-> None, ok |-> ok]}
          /\ notices' = notices \cup
                 {[by |-> req.by, kind |-> IF ok THEN "sent" ELSE "send_failed",
                   text |-> None]}
    /\ UNCHANGED <<pollVars, extVars, whatsapp_enabled, waiting_for_whatsapp_reply,
                   pending_whatsapp_message, last_whatsapp_contact,
                   whatsapp_conversations, dpc, dresp, upc, utext, uroute, uloc>>

\* _rewrite_and_send_whatsapp_reply, lines 774-776.
Rewrite_Check(u) ==
    /\ upc[u] = "rw_check"
    /\ upc' = [upc EXCEPT ![u] =
                  IF pending_whatsapp_message = NoMessage THEN "ret" ELSE "rw_read"]
    /\ UNCHANGED <<pollVars, extVars, whatsapp_enabled, waiting_for_whatsapp_reply,
                   pending_whatsapp_message, last_whatsapp_contact,
                   whatsapp_conversations, dpc, dresp, utext, uroute, uloc, sends,
                   send_threads, notices>>

\* Lines 778-780; subscripting None raises TypeError.
Rewrite_Read(u) ==
    /\ upc[u] = "rw_read"
    /\ IF pending_whatsapp_message = NoMessage
       THEN /\ upc' = [upc EXCEPT ![u] = "rw_except"]
            /\ UNCHANGED uloc
       ELSE /\ upc' = [upc EXCEPT ![u] = "rw_call"]
            /\ uloc' = [uloc EXCEPT ![u] = pending_whatsapp_message]
    /\ UNCHANGED <<pollVars, extVars, whatsapp_enabled, waiting_for_whatsapp_reply,
                   pending_whatsapp_message, last_whatsapp_contact,
                   whatsapp_conversations, dpc, dresp, utext, uroute, sends,
                   send_threads, notices>>

\* Lines 785-806: the rewrite call returns or raises.
Rewrite_Call(u) ==
    /\ upc[u] = "rw_call"
    /\ \E raised \in BOOLEAN :
          upc' = [upc EXCEPT ![u] = IF raised THEN "rw_except" ELSE "rw_send"]
    /\ UNCHANGED <<pollVars, extVars, whatsapp_enabled, waiting_for_whatsapp_reply,
                   pending_whatsapp_message, last_whatsapp_contact,
                   whatsapp_conversations, dpc, dresp, utext, uroute, uloc, sends,
                   send_threads, notices>>

\* Line 809: success = self.whatsapp.send_message(contact, rewritten_message).
Rewrite_Send(u) ==
    /\ upc[u] = "rw_send"
    /\ \E ok \in BOOLEAN :
          /\ sends' = sends \cup {[by |-> u, to |-> uloc[u].contact, text |-> "rewritten",
                                   kind |-> "rewrite", src |-> uloc[u].src, ok |-> ok]}
          /\ upc' = [upc EXCEPT ![u] = IF ok THEN "rw_ok" ELSE "rw_fail"]
    /\ UNCHANGED <<pollVars, extVars, whatsapp_enabled, waiting_for_whatsapp_reply,
                   pending_whatsapp_message, last_whatsapp_contact,
                   whatsapp_conversations, dpc, dresp, utext, uroute, uloc,
                   send_threads, notices>>

\* Lines 811-822: the [YOU] line is stored, then line 822 reads the undefined
\* name smart_detected and raises NameError.
Rewrite_SendOk(u) ==
    /\ upc[u] = "rw_ok"
    /\ whatsapp_conversations' =
           AddToConversationHistory(whatsapp_conversations, uloc[u].contact,
                                    [dir |-> "YOU", by |-> u])
    /\ upc' = [upc EXCEPT ![u] = "rw_except"]
    /\ UNCHANGED <<pollVars, extVars, whatsapp_enabled, waiting_for_whatsapp_reply,
                   pending_whatsapp_message, last_whatsapp_contact, dpc, dresp, utext,
                   uroute, uloc, sends, send_threads, notices>>

\* Lines 832-840: the failure notice, then the flag is cleared.
Rewrite_SendFailed(u) ==
    /\ upc[u] = "rw_fail"
    /\ notices' = notices \cup {[by |-> u, kind |-> "send_failed", text |-> None]}
    /\ waiting_for_whatsapp_reply' = FALSE
    /\ upc' = [upc EXCEPT ![u] = "clr_rec"]
    /\ UNCHANGED <<pollVars, extVars, whatsapp_enabled, pending_whatsapp_message,
                   last_whatsapp_contact, whatsapp_conversations, dpc, dresp, utext,
                   uroute, uloc, sends, send_threads>>

\* An exception handler that shows the error and leaves the flag set.
Rewrite_Except_KeepFlag(u) ==
    /\ upc[u] = "rw_except"
    /\ notices' = notices \cup {[by |-> u, kind |-> "rewrite_error", text |-> None]}
    /\ upc' = [upc EXCEPT ![u] = "clr_rec"]
    /\ UNCHANGED <<pollVars, extVars, whatsapp_enabled, waiting_for_whatsapp_reply,
                   pending_whatsapp_message, last_whatsapp_contact,
                   whatsapp_conversations, dpc, dresp, utext, uroute, uloc, sends,
                   send_threads>>

\* Lines 843-850: the error notice, then the flag is cleared.
Rewrite_Except(u) ==
    /\ upc[u] = "rw_except"
    /\ notices' = notices \cup {[by |-> u, kind |-> "rewrite_error", text |-> None]}
    /\ waiting_for_whatsapp_reply' = FALSE
    /\ upc' = [upc EXCEPT ![u] = "clr_rec"]
    /\ UNCHANGED <<pollVars, extVars, whatsapp_enabled, pending_whatsapp_message,
                   last_whatsapp_contact, whatsapp_conversations, dpc, dresp, utext,
                   uroute, uloc, sends, send_threads>>

\* Lines 841 and 851: self.pending_whatsapp_message = NoMessage.
Rewrite_ClearRecord(u) ==
    /\ upc[u] = "clr_rec"
    /\ pending_whatsapp_message' = NoMessage
    /\ uloc' = [uloc EXCEPT ![u] = NoMessage]
    /\ upc' = [upc EXCEPT ![u] = "ret"]
    /\ UNCHANGED <<pollVars, extVars, whatsapp_enabled, waiting_for_whatsapp_reply,
                   last_whatsapp_contact, whatsapp_conversations, dpc, dresp, utext,
                   uroute, sends, send_threads, notices>>

\* Lines 177-179, 185-187 and 192-215: _process_user_message returns.
ProcessUserMessage_Return(u) ==
    /\ upc[u] = "ret"
    /\ upc' = [upc EXCEPT ![u] = "done"]
    /\ utext' = [utext EXCEPT ![u] = 0]
    /\ status_updates' = [status_updates EXCEPT ![u] = Append(@, "Idle")]
    /\ UNCHANGED <<pollVars, extOther, whatsapp_enabled, waiting_for_whatsapp_reply,
                   pending_whatsapp_message, last_whatsapp_contact,
                   whatsapp_conversations, dpc, dresp, uroute, uloc, sends,
                   send_threads, notices>>

\* One step of the application with decision threads for the notifications ns,
\* utterance threads for the utterances us and the general-conversation
\* answers rs of the Completion Service.
Step(ns, us, rs) ==
    \/ EnableWhatsApp
    \/ DisableWhatsApp
    \/ \E n \in ns : OnWhatsappNotification(n)
    \/ \E n \in ns : ProcessWithAI_Complete(n)
    \/ \E n \in ns : ProcessWithAI_Error(n)
    \/ \E n \in ns : ProcessWithAI_Send(n)
    \/ \E n \in ns : ProcessWithAI_Sent(n)
    \/ \E n \in ns : ProcessWithAI_SetFlag(n)
    \/ \E n \in ns : ProcessWithAI_SetRecord(n)
    \/ \E n \in ns : ProcessWithAI_NotifyUser(n)
    \/ \E u \in us : ProcessUserMessage_Route(u)
    \/ \E u \in us : ProcessUserMessage_WhatsAppIntent(u)
    \/ \E u \in us : QuickReply_Send(u)
    \/ \E u \in us : ProcessUserMessage_General(u, rs)
    \/ \E req \in send_threads : SendWhatsappMessage(req)
    \/ \E u \in us : Rewrite_Check(u)
    \/ \E u \in us : Rewrite_Read(u)
    \/ \E u \in us : Rewrite_Call(u)
    \/ \E u \in us : Rewrite_Send(u)
    \/ \E u \in us : Rewrite_SendOk(u)
    \/ \E u \in us : Rewrite_SendFailed(u)
    \/ \E u \in us : Rewrite_Except(u)
    \/ \E u \in us : Rewrite_ClearRecord(u)
    \/ \E u \in us : ProcessUserMessage_Return(u)

\* Two incoming messages are decided concurrently while one utterance is processed.
Next == Step(Notifs, {"u1"}, {1})

\* One incoming message is decided while two utterances are processed concurrently.
UtteranceNext == Step({"n1"}, Users, {1})

\* One utterance reaches general conversation and the Completion Service
\* answers with or without send directives.
GeneralNext == Step({"n1"}, {"u1"}, DOMAIN AiResponses)

(***************************************************************************)
(* Part 3.  The connector services, their polling loop, send and shutdown  *)
(***************************************************************************)

\* send_message(..., retries=3) of WhatsAppService.
retries == 3

\* The _start_whatsapp threads; the monitoring loop a start creates has its id.
StartIds == {1, 2}
NoThread == <<>>

\* The variables the connector threads never write.
connOther == <<convo, unread, last_message_previews, last_seen_messages, ppc,
               scan_idx, new_messages, surfaced, scan_errors,
               waiting_for_whatsapp_reply,
               pending_whatsapp_message, last_whatsapp_contact, dresp, upc, utext,
               uroute, uloc, sends, send_threads, notices, appends, ctxVars,
               genVars, storeVars, guiVars, raceVars>>

ConnInit(class) ==
    /\ service = class
    /\ is_running = FALSE
    /\ stop_event = FALSE
    /\ monitor_thread = 0
    /\ loops = [k \in StartIds |-> "none"]
    /\ driver_lock = NoThread
    /\ driver_ops = {}
    /\ session_open = FALSE
    /\ startpc = [k \in StartIds |-> "none"]
    /\ stoppc = "idle"
    /\ stop_by = None
    /\ spc = "idle"
    /\ attempt = 0
    /\ send_log = <<>>
    /\ send_result = None
    /\ hpc = "idle"
    /\ signalled = {}

Alive(k) == loops[k] \notin {"none", "exited"}

\* _handle_whatsapp_toggle, lines 486-496: not enabled, so a thread running
\* _start_whatsapp is started.
ToggleOn(k) ==
    /\ stoppc = "idle"
    /\ stop_by # "shutdown"
    /\ ~whatsapp_enabled
    /\ startpc[k] = "none"
    /\ \A j \in StartIds : j < k => startpc[j] # "none"
    /\ startpc' = [startpc EXCEPT ![k] = "starting"]
    /\ UNCHANGED <<connOther, signalled, service, is_running, stop_event,
                   monitor_thread, loops, driver_lock, driver_ops,
                   session_open, stoppc, stop_by, spc, attempt, send_log,
                   send_result, hpc, whatsapp_enabled, db,
                   whatsapp_conversations, dpc>>

\* start(): the session is opened, then the monitoring thread is started
\* (whatsapp_service.py 196-200, whatsapp_webjs_service.py 171-175).
Start_Monitor(k) ==
    /\ startpc[k] = "starting"
    /\ session_open' = TRUE
    /\ is_running' = TRUE
    /\ stop_event' = FALSE
    /\ monitor_thread' = k
    /\ loops' = [loops EXCEPT ![k] = "test"]
    /\ startpc' = [startpc EXCEPT ![k] = "ready"]
    /\ UNCHANGED <<connOther, signalled, service, driver_lock, driver_ops, stoppc,
                   stop_by, spc, attempt, send_log, send_result, hpc,
                   whatsapp_enabled, db, whatsapp_conversations, dpc>>

\* _start_whatsapp, lines 516-517: start() returned True.
Start_Return(k) ==
    /\ startpc[k] = "ready"
    /\ whatsapp_enabled' = TRUE
    /\ startpc' = [startpc EXCEPT ![k] = "done"]
    /\ UNCHANGED <<connOther, signalled, service, is_running, stop_event,
                   monitor_thread, loops, driver_lock, driver_ops,
                   session_open, stoppc, stop_by, spc, attempt, send_log,
                   send_result, hpc, db, whatsapp_conversations, dpc>>

\* stop(): is_running = False, stop_event.set().
Stop_Signal(by) ==
    /\ stoppc = "idle"
    /\ stop_by # "shutdown"
    /\ whatsapp_enabled
    /\ is_running' = FALSE
    /\ stop_event' = TRUE
    /\ stoppc' = "join"
    /\ stop_by' = by
    /\ signalled' = signalled \cup {k \in StartIds : Alive(k)}
    /\ UNCHANGED <<connOther, service, monitor_thread, loops, driver_lock,
                   driver_ops, session_open, startpc, spc, attempt,
                   send_log, send_result, hpc, whatsapp_enabled, db,
                   whatsapp_conversations, dpc>>

\* _handle_whatsapp_toggle, lines 497-500: enabled, so stop() is called.
ToggleOff == Stop_Signal("toggle")

\* _handle_shutdown, lines 949-950.
HandleShutdown == Stop_Signal("shutdown")

\* stop(): monitor_thread.join(timeout=5) returns when the thread has ended
\* or when the 5 seconds are over.
Stop_Join ==
    /\ stoppc = "join"
    /\ \E timed_out \in BOOLEAN :
          \/ monitor_thread = 0
          \/ ~Alive(monitor_thread)
          \/ timed_out
    /\ stoppc' = "release"
    /\ UNCHANGED <<connOther, signalled, service, is_running, stop_event,
                   monitor_thread, loops, driver_lock, driver_ops,
                   session_open, startpc, stop_by, spc, attempt,
                   send_log, send_result, hpc, whatsapp_enabled, db,
                   whatsapp_conversations, dpc>>

\* stop(): self.driver.quit() / bridge_process.terminate() begins; neither
\* takes driver_lock.
Stop_Release ==
    /\ stoppc = "release"
    /\ driver_ops' = driver_ops \cup {<<"release", 0>>}
    /\ stoppc' = "releasing"
    /\ UNCHANGED <<connOther, signalled, service, is_running, stop_event,
                   monitor_thread, loops, driver_lock, session_open,
                   startpc, stop_by, spc, attempt, send_log, send_result,
                   hpc, whatsapp_enabled, db, whatsapp_conversations,
                   dpc>>

\* The session is gone; back in the caller (main.py line 501 for the toggle).
Stop_Released ==
    /\ stoppc = "releasing"
    /\ driver_ops' = driver_ops \ {<<"release", 0>>}
    /\ session_open' = FALSE
    /\ whatsapp_enabled' = IF stop_by = "toggle" THEN FALSE ELSE whatsapp_enabled
    /\ stoppc' = "idle"
    /\ UNCHANGED <<connOther, signalled, service, is_running, stop_event,
                   monitor_thread, loops, driver_lock, startpc, stop_by,
                   spc, attempt, send_log, send_result, hpc, db,
                   whatsapp_conversations, dpc>>

\* _monitor_messages: the while condition.
Loop_Test(k) ==
    /\ loops[k] = "test"
    /\ IF is_running /\ ~stop_event
       THEN IF service = "selenium"
            THEN /\ loops' = [loops EXCEPT ![k] = "wait"]
                 /\ UNCHANGED driver_ops
            ELSE /\ loops' = [loops EXCEPT ![k] = "scan"]
                 /\ driver_ops' = driver_ops \cup {<<"poll", k>>}
       ELSE /\ loops' = [loops EXCEPT ![k] = "exited"]
            /\ UNCHANGED driver_ops
    /\ UNCHANGED <<connOther, signalled, service, is_running, stop_event,
                   monitor_thread, driver_lock, session_open, startpc,
                   stoppc, stop_by, spc, attempt, send_log, send_result,
                   hpc, whatsapp_enabled, db, whatsapp_conversations,
                   dpc>>

\* _check_for_new_messages, line 266: with self.driver_lock.
Loop_Acquire(k) ==
    /\ loops[k] = "wait"
    /\ driver_lock = NoThread
    /\ driver_lock' = <<"poll", k>>
    /\ driver_ops' = driver_ops \cup {<<"poll", k>>}
    /\ loops' = [loops EXCEPT ![k] = "scan"]
    /\ UNCHANGED <<connOther, signalled, service, is_running, stop_event,
                   monitor_thread, session_open, startpc, stoppc,
                   stop_by, spc, attempt, send_log, send_result, hpc,
                   whatsapp_enabled, db, whatsapp_conversations, dpc>>

\* The poll cycle ends without a new message, with the message of
\* notification n1, or with an exception of the connector, caught at
\* whatsapp_service.py 430-432 or whatsapp_webjs_service.py 280-283; the lock
\* is released.  The specification chooses the outcomes it considers.
Loop_CycleEnd(k, outcomes) ==
    /\ loops[k] = "scan"
    /\ driver_lock' = IF driver_lock = <<"poll", k>> THEN NoThread ELSE driver_lock
    /\ driver_ops' = driver_ops \ {<<"poll", k>>}
    /\ \E outcome \in outcomes :
          /\ outcome = "got"
             => (dpc["n1"] = "idle"
                   /\ \A j \in StartIds : loops[j] \notin {"save", "notify"})
          /\ loops' = [loops EXCEPT ![k] =
                          CASE outcome = "none" -> "sleep"
                            [] outcome = "failed" -> "failed"
                            [] OTHER -> IF service = "selenium" THEN "save"
                                        ELSE "notify"]
    /\ UNCHANGED <<connOther, signalled, service, is_running, stop_event,
                   monitor_thread, session_open, startpc, stoppc,
                   stop_by, spc, attempt, send_log, send_result, hpc,
                   whatsapp_enabled, db, whatsapp_conversations, dpc>>

\* whatsapp_service.py line 239: self.db.save_message(message).  The loop of
\* WhatsAppWebJSService has no such call.
Loop_Save(k) ==
    /\ loops[k] = "save"
    /\ db' = Append(db, [chat |-> IncomingMessage["n1"].chat_name,
                         direction |-> "incoming",
                         content |-> IncomingMessage["n1"].content])
    /\ loops' = [loops EXCEPT ![k] = "notify"]
    /\ UNCHANGED <<connOther, signalled, service, is_running, stop_event,
                   monitor_thread, driver_lock, driver_ops, session_open,
                   startpc, stoppc, stop_by, spc, attempt, send_log,
                   send_result, hpc, whatsapp_enabled,
                   whatsapp_conversations, dpc>>

\* _trigger_notification calls _on_whatsapp_notification: the [THEM] line is
\* appended and the decision thread is started.
Loop_Notify(k) ==
    /\ loops[k] = "notify"
    /\ whatsapp_conversations' =
           AddToConversationHistory(whatsapp_conversations,
                                    Notification("n1").chat_name,
                                    [dir |-> "THEM", by |-> "n1"])
    /\ dpc' = [dpc EXCEPT !["n1"] = "call"]
    /\ loops' = [loops EXCEPT ![k] = "sleep"]
    /\ UNCHANGED <<connOther, signalled, service, is_running, stop_event,
                   monitor_thread, driver_lock, driver_ops, session_open,
                   startpc, stoppc, stop_by, spc, attempt, send_log,
                   send_result, hpc, whatsapp_enabled, db>>

\* A loop that ends when a poll cycle failed.
Loop_Recover_Exit(k) ==
    /\ loops[k] = "failed"
    /\ loops' = [loops EXCEPT ![k] = "exited"]
    /\ UNCHANGED <<connOther, signalled, service, is_running, stop_event,
                   monitor_thread, driver_lock, driver_ops, session_open,
                   startpc, stoppc, stop_by, spc, attempt, send_log,
                   send_result, hpc, whatsapp_enabled, db,
                   whatsapp_conversations, dpc>>

\* The failure is logged and the loop sleeps before its next pass
\* (whatsapp_service.py 430-434 and 250-251, whatsapp_webjs_service.py 280-283).
Loop_Recover(k) ==
    /\ loops[k] = "failed"
    /\ loops' = [loops EXCEPT ![k] = "sleep"]
    /\ UNCHANGED <<connOther, signalled, service, is_running, stop_event,
                   monitor_thread, driver_lock, driver_ops, session_open,
                   startpc, stoppc, stop_by, spc, attempt, send_log,
                   send_result, hpc, whatsapp_enabled, db,
                   whatsapp_conversations, dpc>>

\* time.sleep(3) / time.sleep(2) is over.
Loop_Wake(k) ==
    /\ loops[k] = "sleep"
    /\ loops' = [loops EXCEPT ![k] = "test"]
    /\ UNCHANGED <<connOther, signalled, service, is_running, stop_event,
                   monitor_thread, driver_lock, driver_ops, session_open,
                   startpc, stoppc, stop_by, spc, attempt, send_log,
                   send_result, hpc, whatsapp_enabled, db,
                   whatsapp_conversations, dpc>>

\* send_message is called; WhatsAppWebJSService posts to the bridge at once.
Send_Call ==
    /\ spc = "idle"
    /\ session_open
    /\ attempt' = 0
    /\ IF service = "selenium"
       THEN /\ spc' = "acquire"
            /\ UNCHANGED <<driver_ops, send_log>>
       ELSE /\ spc' = "attempt"
            /\ driver_ops' = driver_ops \cup {<<"send", 0>>}
            /\ send_log' = Append(send_log, "attempt")
    /\ UNCHANGED <<connOther, signalled, service, is_running, stop_event,
                   monitor_thread, loops, driver_lock, session_open,
                   startpc, stoppc, stop_by, send_result, hpc,
                   whatsapp_enabled, db, whatsapp_conversations, dpc>>

\* whatsapp_service.py line 555: with self.driver_lock, once per attempt.
Send_Acquire ==
    /\ spc = "acquire"
    /\ driver_lock = NoThread
    /\ driver_lock' = <<"send", 0>>
    /\ driver_ops' = driver_ops \cup {<<"send", 0>>}
    /\ send_log' = Append(send_log, "attempt")
    /\ spc' = "attempt"
    /\ UNCHANGED <<connOther, signalled, service, is_running, stop_event,
                   monitor_thread, loops, session_open, startpc, stoppc,
                   stop_by, attempt, send_result, hpc, whatsapp_enabled,
                   db, whatsapp_conversations, dpc>>

\* What one attempt can do.
AttemptOutcomes ==
    IF service = "selenium"
    THEN {"ok", "not_found", "raise", "raise_after_submit"}
    ELSE {"ok", "not_found"}

\* The record send_message of WhatsAppService saves (lines 602-613).
sent_message ==
    [chat |-> "Chen", direction |-> "outgoing", content |-> "reply"]

\* A send loop that recovers and retries after every failed attempt.
Send_Attempt_Unbounded(outcome) ==
    /\ spc = "attempt"
    /\ outcome \in AttemptOutcomes
    /\ driver_lock' = IF driver_lock = <<"send", 0>> THEN NoThread ELSE driver_lock
    /\ driver_ops' = driver_ops \ {<<"send", 0>>}
    /\ send_log' =
           CASE outcome = "ok" /\ service = "selenium"
                    -> send_log \o <<"submit", "save">>
             [] outcome = "ok" /\ service # "selenium" -> Append(send_log, "submit")
             [] outcome = "raise_after_submit" -> Append(send_log, "submit")
             [] OTHER -> send_log
    /\ db' = IF outcome = "ok" /\ service = "selenium"
             THEN Append(db, sent_message) ELSE db
    /\ CASE outcome = "ok" ->
                /\ spc' = "returned"
                /\ send_result' = "True"
         [] outcome = "not_found" ->
                /\ spc' = "returned"
                /\ send_result' = "False"
         [] OTHER ->
                IF attempt < retries
                THEN /\ spc' = "recover"
                     /\ UNCHANGED send_result
                ELSE /\ spc' = "returned"
                     /\ send_result' = "False"
    /\ UNCHANGED <<connOther, signalled, service, is_running, stop_event,
                   monitor_thread, loops, session_open, startpc, stoppc,
                   stop_by, attempt, hpc, whatsapp_enabled,
                   whatsapp_conversations, dpc>>

\* The end of one attempt (lines 555-626 / 314-363).
Send_Attempt(outcome) ==
    /\ spc = "attempt"
    /\ outcome \in AttemptOutcomes
    /\ driver_lock' = IF driver_lock = <<"send", 0>> THEN NoThread ELSE driver_lock
    /\ driver_ops' = driver_ops \ {<<"send", 0>>}
    /\ send_log' =
           CASE outcome = "ok" /\ service = "selenium"
                    -> send_log \o <<"submit", "save">>
             [] outcome = "ok" /\ service # "selenium" -> Append(send_log, "submit")
             [] outcome = "raise_after_submit" -> Append(send_log, "submit")
             [] OTHER -> send_log
    /\ db' = IF outcome = "ok" /\ service = "selenium"
             THEN Append(db, sent_message) ELSE db
    /\ CASE outcome = "ok" ->
                /\ spc' = "returned"
                /\ send_result' = "True"
         [] outcome = "not_found" ->
                /\ spc' = "returned"
                /\ send_result' = "False"
         [] OTHER ->
                IF attempt < retries - 1
                THEN /\ spc' = "recover"
                     /\ UNCHANGED send_result
                ELSE /\ spc' = "returned"
                     /\ send_result' = "False"
    /\ UNCHANGED <<connOther, signalled, service, is_running, stop_event,
                   monitor_thread, loops, session_open, startpc, stoppc,
                   stop_by, attempt, hpc, whatsapp_enabled,
                   whatsapp_conversations, dpc>>

\* Lines 619-626: self.driver.refresh(), outside the with block.
Send_Recover ==
    /\ spc = "recover"
    /\ driver_ops' = driver_ops \cup {<<"refresh", 0>>}
    /\ send_log' = Append(send_log, "recover")
    /\ spc' = "recovering"
    /\ UNCHANGED <<connOther, signalled, service, is_running, stop_event,
                   monitor_thread, loops, driver_lock, session_open,
                   startpc, stoppc, stop_by, attempt, send_result, hpc,
                   whatsapp_enabled, db, whatsapp_conversations, dpc>>

\* The refresh is over; the for loop goes to the next attempt.
Send_Recovered ==
    /\ spc = "recovering"
    /\ driver_ops' = driver_ops \ {<<"refresh", 0>>}
    /\ attempt' = attempt + 1
    /\ spc' = "acquire"
    /\ UNCHANGED <<connOther, signalled, service, is_running, stop_event,
                   monitor_thread, loops, driver_lock, session_open,
                   startpc, stoppc, stop_by, send_log, send_result, hpc,
                   whatsapp_enabled, db, whatsapp_conversations, dpc>>

\* check_health of WhatsAppService is called.
Health_Call ==
    /\ hpc = "idle"
    /\ service = "selenium"
    /\ session_open
    /\ hpc' = "wait"
    /\ UNCHANGED <<connOther, signalled, service, is_running, stop_event,
                   monitor_thread, loops, driver_lock, driver_ops,
                   session_open, startpc, stoppc, stop_by, spc, attempt,
                   send_log, send_result, whatsapp_enabled, db,
                   whatsapp_conversations, dpc>>

\* Line 688: with self.driver_lock.
Health_Acquire ==
    /\ hpc = "wait"
    /\ driver_lock = NoThread
    /\ driver_lock' = <<"health", 0>>
    /\ driver_ops' = driver_ops \cup {<<"health", 0>>}
    /\ hpc' = "check"
    /\ UNCHANGED <<connOther, signalled, service, is_running, stop_event,
                   monitor_thread, loops, session_open, startpc, stoppc,
                   stop_by, spc, attempt, send_log, send_result,
                   whatsapp_enabled, db, whatsapp_conversations, dpc>>

Health_Return ==
    /\ hpc = "check"
    /\ driver_lock' = NoThread
    /\ driver_ops' = driver_ops \ {<<"health", 0>>}
    /\ hpc' = "idle"
    /\ UNCHANGED <<connOther, signalled, service, is_running, stop_event,
                   monitor_thread, loops, session_open, startpc, stoppc,
                   stop_by, spc, attempt, send_log, send_result,
                   whatsapp_enabled, db, whatsapp_conversations, dpc>>

ConnectorNext ==
    \/ \E k \in StartIds : ToggleOn(k)
    \/ \E k \in StartIds : Start_Monitor(k)
    \/ \E k \in StartIds : Start_Return(k)
    \/ ToggleOff
    \/ HandleShutdown
    \/ Stop_Join
    \/ Stop_Release
    \/ Stop_Released
    \/ \E k \in StartIds : Loop_Test(k)
    \/ \E k \in StartIds : Loop_Acquire(k)
    \/ \E k \in StartIds : Loop_CycleEnd(k, {"none", "got"})
    \/ \E k \in StartIds : Loop_Save(k)
    \/ \E k \in StartIds : Loop_Notify(k)
    \/ \E k \in StartIds : Loop_Wake(k)
    \/ Send_Call
    \/ Send_Acquire
    \/ \E outcome \in AttemptOutcomes : Send_Attempt(outcome)
    \/ Send_Recover
    \/ Send_Recovered
    \/ Health_Call
    \/ Health_Acquire
    \/ Health_Return

\* The service is started and stopped while its polling loops run and poll
\* cycles fail; no send and no health check.
MonitorNext ==
    \/ \E k \in StartIds : ToggleOn(k)
    \/ \E k \in StartIds : Start_Monitor(k)
    \/ \E k \in StartIds : Start_Return(k)
    \/ ToggleOff
    \/ HandleShutdown
    \/ Stop_Join
    \/ Stop_Release
    \/ Stop_Released
    \/ \E k \in StartIds : Loop_Test(k)
    \/ \E k \in StartIds : Loop_Acquire(k)
    \/ \E k \in StartIds : Loop_CycleEnd(k, {"none", "got", "failed"})
    \/ \E k \in StartIds : Loop_Save(k)
    \/ \E k \in StartIds : Loop_Notify(k)
    \/ \E k \in StartIds : Loop_Recover(k)
    \/ \E k \in StartIds : Loop_Wake(k)

\* A started thread keeps running: the handler returns, the sleep ends and the
\* while condition is evaluated.
MonitorFairness ==
    \A k \in StartIds :
        /\ WF_vars(Loop_Recover(k))
        /\ WF_vars(Loop_Wake(k))
        /\ WF_vars(Loop_Test(k))

\* Bound on the calls of _add_to_conversation_history for one contact.
MaxAppends == 55

\* One call _add_to_conversation_history(contact_name, message, is_from_user);
\* the line carries the number of the call as its text.
AddLine(contact_name, is_from_user) ==
    /\ appends[contact_name] < MaxAppends
    /\ appends' = [appends EXCEPT ![contact_name] = @ + 1]
    /\ whatsapp_conversations' =
           AddToConversationHistory(whatsapp_conversations, contact_name,
               [dir |-> IF is_from_user THEN "YOU" ELSE "THEM",
                by |-> appends[contact_name] + 1])
    /\ UNCHANGED <<pollVars, connVars, ctxVars, genVars, storeVars, guiVars,
                   raceVars, whatsapp_enabled,
                   waiting_for_whatsapp_reply, pending_whatsapp_message,
                   last_whatsapp_contact, dpc, dresp, upc, utext, uroute, uloc, sends,
                   send_threads, notices>>

\* Incoming lines of one conversation, outgoing lines of another.
HistoryNext ==
    \/ AddLine("Chen", FALSE)
    \/ AddLine("Team", TRUE)

\* The threads that append to the window of one contact: the monitor thread
\* (the [THEM] lines of _on_whatsapp_notification, call after call) and one
\* reply thread (the [YOU] line of a reply that was sent).
AppendThreads == {"monitor", "reply"}
RaceContact == "Chen"

RaceInit ==
    /\ conversation_keys = {}
    /\ apc = [t \in AppendThreads |-> "idle"]
    /\ aloc = [t \in AppendThreads |-> <<>>]

raceOther ==
    <<pollVars, connVars, ctxVars, genVars, storeVars, guiVars, whatsapp_enabled,
      waiting_for_whatsapp_reply, pending_whatsapp_message, last_whatsapp_contact,
      dpc, dresp, upc, utext, uroute, uloc, sends, send_threads, notices>>

\* The position of a thread that leaves the function: the monitor thread
\* calls again for the next message, the reply thread is over.
Returned(t) == IF t = "monitor" THEN "idle" ELSE "done"

\* A thread calls _add_to_conversation_history(RaceContact, ...).
Race_Call(t) ==
    /\ apc[t] = "idle"
    /\ appends[RaceContact] < MaxAppends
    /\ apc' = [apc EXCEPT ![t] = "test_key"]
    /\ UNCHANGED <<raceOther, whatsapp_conversations, appends, conversation_keys, aloc>>

\* Line 574: if contact_name not in self.whatsapp_conversations.
Race_TestKey(t) ==
    /\ apc[t] = "test_key"
    /\ apc' = [apc EXCEPT ![t] =
                  IF RaceContact \in conversation_keys THEN "append" ELSE "create"]
    /\ UNCHANGED <<raceOther, whatsapp_conversations, appends, conversation_keys, aloc>>

\* Line 575: self.whatsapp_conversations[contact_name] = [].
Race_Create(t) ==
    /\ apc[t] = "create"
    /\ conversation_keys' = conversation_keys \cup {RaceContact}
    /\ whatsapp_conversations' = [whatsapp_conversations EXCEPT ![RaceContact] = <<>>]
    /\ apc' = [apc EXCEPT ![t] = "append"]
    /\ UNCHANGED <<raceOther, appends, aloc>>

\* Line 579: the tagged line is appended to the list the dict holds; the line
\* carries the number of the append as its text.
Race_Append(t) ==
    /\ apc[t] = "append"
    /\ appends' = [appends EXCEPT ![RaceContact] = @ + 1]
    /\ whatsapp_conversations' =
           [whatsapp_conversations EXCEPT ![RaceContact] =
               Append(@, [dir |-> IF t = "monitor" THEN "THEM" ELSE "YOU",
                          by |-> appends[RaceContact] + 1])]
    /\ apc' = [apc EXCEPT ![t] = "test_len"]
    /\ UNCHANGED <<raceOther, conversation_keys, aloc>>

\* Line 582: if len(...) > self.max_history_per_contact.
Race_TestLen(t) ==
    /\ apc[t] = "test_len"
    /\ apc' = [apc EXCEPT ![t] =
                  IF Len(whatsapp_conversations[RaceContact]) > max_history_per_contact
                  THEN "slice" ELSE Returned(t)]
    /\ UNCHANGED <<raceOther, whatsapp_conversations, appends, conversation_keys, aloc>>

\* Line 583, right-hand side: the slice [-50:] builds a new list.
Race_Slice(t) ==
    LET h == whatsapp_conversations[RaceContact]
    IN  /\ apc[t] = "slice"
        /\ aloc' = [aloc EXCEPT ![t] =
                        IF Len(h) > max_history_per_contact
                        THEN SubSeq(h, Len(h) - max_history_per_contact + 1, Len(h))
                        ELSE h]
        /\ apc' = [apc EXCEPT ![t] = "store"]
        /\ UNCHANGED <<raceOther, whatsapp_conversations, appends, conversation_keys>>

\* Line 583, assignment: the dict entry is replaced by the new list.
Race_Store(t) ==
    /\ apc[t] = "store"
    /\ whatsapp_conversations' =
           [whatsapp_conversations EXCEPT ![RaceContact] = aloc[t]]
    /\ aloc' = [aloc EXCEPT ![t] = <<>>]
    /\ apc' = [apc EXCEPT ![t] = Returned(t)]
    /\ UNCHANGED <<raceOther, appends, conversation_keys>>

HistoryRaceNext ==
    \E t \in AppendThreads :
        \/ Race_Call(t)
        \/ Race_TestKey(t)
        \/ Race_Create(t)
        \/ Race_Append(t)
        \/ Race_TestLen(t)
        \/ Race_Slice(t)
        \/ Race_Store(t)

(***************************************************************************)
(* Part 4.  The User Utterance Pool (FridayApp.user_context)               *)
(***************************************************************************)

\* Calls of _add_user_context made, clock steps and their length in seconds.
MaxContexts == 31
MaxTicks == 2
TickSeconds == 150

NoRecentContext == <<"No recent user context.">>

\* The list comprehension of line 616.
RECURSIVE Recent(_, _)
Recent(pool, t) ==
    IF pool = <<>> THEN <<>>
    ELSE IF t - Head(pool).timestamp < RecentSeconds
         THEN <<Head(pool)>> \o Recent(Tail(pool), t)
         ELSE Recent(Tail(pool), t)

\* _get_user_context_text, lines 609-622: the header line and one line per
\* recent entry, or the sentinel.
GetUserContextText(pool, t) ==
    IF pool = <<>> THEN NoRecentContext
    ELSE IF Recent(pool, t) = <<>> THEN NoRecentContext
    ELSE <<"WHAT USER TOLD FRIDAY RECENTLY:">>
         \o [i \in 1..Len(Recent(pool, t)) |-> <<"- ", Recent(pool, t)[i].text>>]

CtxInit ==
    /\ user_context = <<>>
    /\ now = 0
    /\ context_appends = 0
    /\ user_context_text = <<>>

ctxOther ==
    <<pollVars, appVars, appends, connVars, genVars, storeVars, guiVars, raceVars>>

\* One call _add_user_context(text); the text is the number of the call.
AddUserContextCall ==
    /\ context_appends < MaxContexts
    /\ context_appends' = context_appends + 1
    /\ user_context' = AddUserContext(user_context, context_appends + 1, now)
    /\ user_context_text' = <<>>
    /\ UNCHANGED <<ctxOther, now>>

\* The clock advances.
Tick ==
    /\ now < MaxTicks * TickSeconds
    /\ now' = now + TickSeconds
    /\ user_context_text' = <<>>
    /\ UNCHANGED <<ctxOther, user_context, context_appends>>

\* Line 640 of _process_whatsapp_with_ai: user_context = self._get_user_context_text().
GetUserContextTextCall ==
    /\ user_context_text = <<>>
    /\ user_context_text' = GetUserContextText(user_context, now)
    /\ UNCHANGED <<ctxOther, user_context, now, context_appends>>

ContextNext ==
    \/ AddUserContextCall
    \/ Tick
    \/ GetUserContextTextCall

GenInit == ai_response = [u \in Users |-> [r |-> 0, shown |-> <<>>]]

(***************************************************************************)
(* Part 5.  The Chat Store (WhatsAppDatabase, table "messages")            *)
(***************************************************************************)

MessageIds == {"m1", "m2", "m3"}
Contents == {"a", "b"}

\* A row of the table, lines 48-61, with the columns the calls below read or
\* write; id is the primary key.
Rows ==
    [id : MessageIds, chat_name : Chats, content : Contents,
     is_read : BOOLEAN, is_from_me : BOOLEAN]

NoCall == [op |-> None, id |-> None, chat_name |-> None]

\* save_message, lines 89-105: INSERT OR REPLACE on the primary key.
save_message(rows, message) ==
    {r \in rows : r.id # message.id} \cup {message}

\* The SELECT of get_unread_messages, lines 141-145 (the order of the
\* result, timestamp DESC, is not modelled).
get_unread_messages(rows) ==
    {r \in rows : ~r.is_read /\ ~r.is_from_me}

\* The UPDATE of mark_message_read, line 156.
mark_message_read(rows, message_id) ==
    {IF r.id = message_id THEN [r EXCEPT !.is_read = TRUE] ELSE r : r \in rows}

\* An UPDATE without the chat_name test.
mark_chat_read_AllChats(rows, chat_name) ==
    {IF ~r.is_from_me THEN [r EXCEPT !.is_read = TRUE] ELSE r : r \in rows}

\* The UPDATE of mark_chat_read, line 162.
mark_chat_read(rows, chat_name) ==
    {IF r.chat_name = chat_name /\ ~r.is_from_me
     THEN [r EXCEPT !.is_read = TRUE] ELSE r : r \in rows}

StoreInit ==
    /\ messages = {}
    /\ store_call = NoCall
    /\ unread_result = {}

storeOther ==
    <<pollVars, appVars, appends, connVars, ctxVars, genVars, guiVars, raceVars>>

Store_SaveMessage ==
    \E message \in Rows :
        /\ messages' = save_message(messages, message)
        /\ store_call' = [op |-> "save_message", id |-> message.id,
                          chat_name |-> message.chat_name]
        /\ unread_result' = {}
        /\ UNCHANGED storeOther

Store_MarkMessageRead ==
    \E message_id \in MessageIds :
        /\ messages' = mark_message_read(messages, message_id)
        /\ store_call' = [op |-> "mark_message_read", id |-> message_id,
                          chat_name |-> None]
        /\ unread_result' = {}
        /\ UNCHANGED storeOther

Store_MarkChatRead ==
    \E chat_name \in Chats :
        /\ messages' = mark_chat_read(messages, chat_name)
        /\ store_call' = [op |-> "mark_chat_read", id |-> None,
                          chat_name |-> chat_name]
        /\ unread_result' = {}
        /\ UNCHANGED storeOther

Store_GetUnreadMessages ==
    /\ unread_result' = get_unread_messages(messages)
    /\ store_call' = [op |-> "get_unread_messages", id |-> None, chat_name |-> None]
    /\ UNCHANGED <<storeOther, messages>>

StoreNext ==
    \/ Store_SaveMessage
    \/ Store_MarkMessageRead
    \/ Store_MarkChatRead
    \/ Store_GetUnreadMessages

GuiInit == status_updates = [u \in Users |-> <<>>]

ExtInit ==
    /\ appends = [c \in Contacts |-> 0]
    /\ CtxInit /\ GenInit /\ StoreInit /\ GuiInit /\ RaceInit

\* main.py line 57: self.whatsapp = WhatsAppWebJSService().
Init == PollInit /\ AppInit /\ ExtInit /\ ConnInit("webjs")

\* Either connector class of the repository.
ConnectorInit ==
    \E class \in {"selenium", "webjs"} :
        PollInit /\ AppInit /\ ExtInit /\ ConnInit(class)

\* The decision engine and the utterance threads.
Spec == Init /\ [][Next]_vars

\* The decision engine with two concurrent utterance threads.
UtteranceSpec == Init /\ [][UtteranceNext]_vars

\* The Change Detector.
PollSpec == Init /\ [][PollNext]_vars

\* The Change Detector with a monitor thread that keeps running: the loop of
\* _monitor_messages sleeps 3 seconds and polls again.
PollFairness ==
    /\ WF_vars(PollStart)
    /\ WF_vars(ScanChat)
    /\ WF_vars(ScanDone)
    /\ WF_vars(SaveMessage)
    /\ WF_vars(TriggerNotification)

PollFairSpec == Init /\ [][PollNext]_vars /\ PollFairness

\* A connector service with its polling loops, one send and its shutdown.
ConnectorSpec == ConnectorInit /\ [][ConnectorNext]_vars

\* The polling loops under a fair scheduler.
MonitorSpec == ConnectorInit /\ [][MonitorNext]_vars /\ MonitorFairness

\* General conversation with embedded send directives.
GeneralSpec == Init /\ [][GeneralNext]_vars

\* The Conversation Context Window.
HistorySpec == Init /\ [][HistoryNext]_vars

\* The Conversation Context Window under concurrent appends.
HistoryRaceSpec == Init /\ [][HistoryRaceNext]_vars

\* The User Utterance Pool.
ContextSpec == Init /\ [][ContextNext]_vars

\* The Chat Store.
StoreSpec == Init /\ [][StoreNext]_vars

(***************************************************************************)
(* Properties of the Change Detector (checked under PollSpec)              *)
(***************************************************************************)

\* The messages a step adds to the list the poll returns.
NewlyRead == {new_messages'[i] : i \in (Len(new_messages) + 1)..Len(new_messages')}

Stored(m) == \E i \in DOMAIN db : db[i] = m

\* C2: the fingerprint of a conversation is set to a new preview only after
\* the messages newly read from it in that cycle are in the Chat Store: a step
\* that replaces a stored fingerprint leaves no message of that conversation
\* read but not stored.
C2_FingerprintAfterSave ==
    [][\A c \in Chats :
          (last_message_previews[c] # None
             /\ last_message_previews'[c] # last_message_previews[c])
          => \A m \in NewlyRead : m.chat = c => Stored(m)']_vars

\* C3: within one conversation each raw message is surfaced at most once over
\* any sequence of polls (the window read only grows at its end).
C3_SurfacedAtMostOnce ==
    \A i, j \in DOMAIN surfaced :
        (surfaced[i].chat = surfaced[j].chat /\ surfaced[i].idx = surfaced[j].idx)
        => i = j

\* C4: a message of the read window whose content equals the last-seen content
\* recorded for the conversation before the read is never surfaced.
C4_LastSeenNeverSurfaced ==
    [][\A m \in NewlyRead : m.content # last_seen_messages[m.chat]]_vars

\* C5: a poll surfaces messages of a conversation only if a fingerprint was
\* already stored for it and the current preview differs from it; the first
\* observation only records the preview and an unchanged preview surfaces nothing.
C5_SurfaceOnlyOnChange ==
    [][/\ \A m \in NewlyRead :
             /\ last_message_previews[m.chat] # None
             /\ last_message_previews[m.chat] # ChatPreview(m.chat)
       /\ \A c \in Chats :
             (last_message_previews[c] = None /\ last_message_previews'[c] # None)
             => /\ new_messages' = new_messages
                /\ last_message_previews'[c] = ChatPreview(c)]_vars

\* C5 witness: after an earlier poll surfaced messages, a poll has gone past
\* the unread chat c1 whose preview equals its fingerprint and read nothing.
C5_Witness ==
    /\ ppc = "scan"
    /\ scan_idx = 2
    /\ unread["c1"]
    /\ last_message_previews["c1"] # None
    /\ last_message_previews["c1"] = ChatPreview("c1")
    /\ new_messages = <<>>
    /\ surfaced # <<>>

(***************************************************************************)
(* Properties of the decision engine and of the utterance threads          *)
(***************************************************************************)

\* The test of line 182: the Pending Reply Slot is awaiting.
Awaiting == waiting_for_whatsapp_reply /\ pending_whatsapp_message # NoMessage

\* The step with which the thread of utterance u starts _process_user_message.
Begins(u) == upc[u] = "idle" /\ upc'[u] # "idle"

\* The step in which the answer to the decision prompt of n is parsed.
Parsed(n) == dpc[n] = "call" /\ dpc'[n] # "call" /\ dresp'[n] # 0

\* A first or second line that is YES or NO.
WellFormed(w) == Upper(w) \in {"YES", "NO"}

\* C1: with the slot awaiting, an utterance that is not a tell directive takes
\* the pending-reply path; that path ends, on every outcome (sent, send
\* returned false, exception), by clearing the flag and then the record, so the
\* slot is not awaiting when the rewrite-and-send returns.
C1_PendingConsumedAndCleared ==
    [][\A u \in Users :
          /\ (Begins(u) /\ Awaiting
                /\ ~TellDirective(Utterances[utext'[u]], whatsapp_enabled))
             => (uroute'[u] = "pending" /\ upc'[u] = "rw_check")
          /\ (uroute[u] = "pending" /\ upc[u] \in {"rw_ok", "rw_fail", "rw_except"})
             => upc'[u] \in {upc[u], "rw_except", "clr_rec"}
          /\ (uroute[u] = "pending" /\ upc[u] # "clr_rec" /\ upc'[u] = "clr_rec")
             => waiting_for_whatsapp_reply' = FALSE
          /\ (uroute[u] = "pending" /\ upc[u] # "ret" /\ upc'[u] = "ret")
             => (pending_whatsapp_message' = NoMessage /\ ~Awaiting')]_vars

\* C1 witness: the utterance of u1 was consumed as the reply to a pending
\* record, the send succeeded, the thread is over and the slot is cleared.
C1_Witness ==
    /\ upc["u1"] = "done"
    /\ uroute["u1"] = "pending"
    /\ \E s \in sends : s.by = "u1" /\ s.kind = "rewrite" /\ s.src \in Notifs /\ s.ok
    /\ ~waiting_for_whatsapp_reply
    /\ pending_whatsapp_message = NoMessage

C7_TooFewLinesNoAction ==
    [][\A n \in Notifs :
          (Parsed(n) /\ Len(ParseLines(Responses[dresp'[n]])) < 3)
          => /\ dpc'[n] = "done"
             /\ UNCHANGED <<sends, send_threads, waiting_for_whatsapp_reply,
                            pending_whatsapp_message, last_whatsapp_contact,
                            whatsapp_conversations>>]_vars

\* C7 witness: the decision of n1 got a fenced answer of two lines and is over
\* without a send, a slot record or a [YOU] line of its own.
C7_Witness ==
    /\ dpc["n1"] = "done"
    /\ dresp["n1"] # 0
    /\ Head(Responses[dresp["n1"]]) = Fence
    /\ Len(Lines("n1")) = 2
    /\ \A s \in sends : s.by # "n1"
    /\ pending_whatsapp_message.src # "n1"
    /\ \A c \in Contacts : \A i \in DOMAIN whatsapp_conversations[c] :
           whatsapp_conversations[c][i] # [dir |-> "YOU", by |-> "n1"]

\* C8: an answer whose line 1 or line 2 is neither YES nor NO aborts the
\* decision: it makes no send and sets neither the slot nor the pointer.
C8_UnparseableAborts ==
    \A n \in Notifs :
        (dresp[n] # 0 /\ Len(Lines(n)) >= 2
           /\ (~WellFormed(Lines(n)[1]) \/ ~WellFormed(Lines(n)[2])))
        => /\ \A s \in sends : s.by # n
           /\ pending_whatsapp_message.src # n
           /\ \A x \in notices : ~(x.by = n /\ x.kind = "need_input")

\* C9: a pending record is consumed at most once: at most one utterance is
\* rewritten and sent as the reply to it.
C9_ConsumedOnce ==
    \A s1, s2 \in sends :
        (s1.kind = "rewrite" /\ s2.kind = "rewrite" /\ s1.src \in Notifs
           /\ s1.src = s2.src)
        => s1.by = s2.by

\* C10: with the slot awaiting and the last-active pointer set, a short
\* utterance without command keywords that is not a tell directive takes the
\* pending-reply path: it is sent, rewritten, to the conversation of the
\* record, and no quick reply is ever made for it.
C10_PendingBeforeQuickReply ==
    [][\A u \in Users :
          /\ (Begins(u) /\ Awaiting
                /\ QuickReply(Utterances[utext'[u]], last_whatsapp_contact)
                /\ ~TellDirective(Utterances[utext'[u]], whatsapp_enabled))
             => (uroute'[u] = "pending" /\ upc'[u] = "rw_check")
          /\ uroute'[u] = "pending"
             => /\ \A r \in send_threads' : r.by # u
                /\ \A s \in sends' :
                       s.by = u
                       => /\ s.kind = "rewrite"
                          /\ s.src \in Notifs => s.to = IncomingMessage[s.src].chat_name]_vars

\* C10 witness: the short utterance of u1 met an awaiting slot and a set
\* pointer, was rewritten and sent to the conversation of the record, and the
\* pointer was not used for a quick reply.
C10_Witness ==
    /\ uroute["u1"] = "pending"
    /\ utext["u1"] = 1
    /\ upc["u1"] = "rw_ok"
    /\ last_whatsapp_contact # None
    /\ \E s \in sends : s.by = "u1" /\ s.kind = "rewrite" /\ s.to = last_whatsapp_contact
    /\ \A s \in sends : s.kind # "quick"

\* The [YOU] line the decision of n stores is in some context window.
HasReplyLine(n) ==
    \E c \in Contacts : \E i \in DOMAIN whatsapp_conversations[c] :
        whatsapp_conversations[c][i] = [dir |-> "YOU", by |-> n]

\* C13: when the decision is SHOULD_SEND = YES and the send returns false, a
\* failure notice is shown to the user.
C13_FailedAutoReplyNoticed ==
    \A n \in Notifs :
        (dpc[n] = "done" /\ \E s \in sends : s.by = n /\ s.kind = "auto" /\ ~s.ok)
        => \E x \in notices : x.by = n

\* C14: with SHOULD_SEND = YES and 5 lines the decision calls send_message
\* once with (line 3, line 4); after a true result the [YOU] line is appended
\* to the window of the recipient and the slot is untouched; after a false
\* result no [YOU] line is appended.
C14_AutoReplyOutcome ==
    [][\A n \in Notifs :
          /\ (Parsed(n) /\ Len(ParseLines(Responses[dresp'[n]])) >= 5
                /\ Upper(ParseLines(Responses[dresp'[n]])[2]) = "YES")
             => dpc'[n] = "send"
          /\ (dpc[n] = "send" /\ dpc'[n] # "send")
             => /\ \E ok \in BOOLEAN :
                      /\ sends' = sends \cup
                             {[by |-> n, to |-> Lines(n)[3], text |-> Lines(n)[4],
                               kind |-> "auto", src |-> None, ok |-> ok]}
                      /\ dpc'[n] = IF ok THEN "sent_ok" ELSE "done"
                /\ \A s \in sends : s.by # n
                /\ UNCHANGED <<whatsapp_conversations, waiting_for_whatsapp_reply,
                               pending_whatsapp_message>>
          /\ (dpc[n] = "sent_ok" /\ dpc'[n] # "sent_ok")
             => /\ whatsapp_conversations' =
                       [whatsapp_conversations EXCEPT ![Lines(n)[3]] =
                            Append(@, [dir |-> "YOU", by |-> n])]
                /\ UNCHANGED <<sends, waiting_for_whatsapp_reply,
                               pending_whatsapp_message>>
          /\ (\E s \in sends' : s.by = n /\ ~s.ok) => ~HasReplyLine(n)']_vars

\* C14 witness: the auto-reply of n2 to Chen was sent and its [YOU] line is
\* in the window of Chen, not in that of the conversation of n2.
C14_Witness ==
    /\ dpc["n2"] = "done"
    /\ \E s \in sends : s.by = "n2" /\ s.to = "Chen" /\ s.text = "reply" /\ s.ok
    /\ \E i \in DOMAIN whatsapp_conversations["Chen"] :
           whatsapp_conversations["Chen"][i] = [dir |-> "YOU", by |-> "n2"]
    /\ \A i \in DOMAIN whatsapp_conversations["Team"] :
           whatsapp_conversations["Team"][i].dir = "THEM"

\* C16: setting and clearing the slot are atomic: when every thread has
\* finished, the slot is either set (flag and record) or cleared (neither).
C16_SlotNeverTorn ==
    ((\A n \in Notifs : dpc[n] \in {"idle", "done"})
       /\ (\A u \in Users : upc[u] \in {"idle", "done"}))
    => (waiting_for_whatsapp_reply <=> pending_whatsapp_message # NoMessage)

\* C15: every context window holds at most 50 lines, and they are the most
\* recently appended ones in append order; after 55 appends to a conversation
\* the 5 oldest lines are gone and lines 6..55 remain in order.
C15_WindowKeepsLast50 ==
    \A c \in Contacts :
        LET h == whatsapp_conversations[c]
            first == IF appends[c] > max_history_per_contact
                     THEN appends[c] - max_history_per_contact ELSE 0
        IN  /\ Len(h) <= max_history_per_contact
            /\ Len(h) = appends[c] - first
            /\ \A i \in DOMAIN h : h[i].by = first + i

\* C15 witness: 55 lines were appended to the window of Chen; it holds 50
\* lines, the first of them is line 6.
C15_Witness ==
    /\ appends["Chen"] = 55
    /\ Len(whatsapp_conversations["Chen"]) = 50
    /\ whatsapp_conversations["Chen"][1].by = 6
    /\ whatsapp_conversations["Chen"][50].by = 55

(***************************************************************************)
(* Properties of the connector services (checked under ConnectorSpec)      *)
(***************************************************************************)

\* C11: the operations on the session of one WhatsAppService (poll scan,
\* send attempt, recovery refresh, health check, release at shutdown) are
\* mutually exclusive: never two of them in progress.
C11_ConnectorOpsExclusive ==
    service = "selenium" => Cardinality(driver_ops) <= 1

\* The number of entries e of the log s.
RECURSIVE Count(_, _)
Count(s, e) ==
    IF s = <<>> THEN 0
    ELSE (IF Head(s) = e THEN 1 ELSE 0) + Count(Tail(s), e)

\* C12: one send_message call of WhatsAppService makes at most 3 attempts;
\* every attempt after the first follows a recovery made after the failed
\* attempt; it returns true only after an attempt succeeded, and after the
\* third failed attempt it returns false without another recovery.
C12_BoundedRetries ==
    [][service = "selenium" =>
          /\ Count(send_log', "attempt") <= 3
          /\ \A i \in DOMAIN send_log' :
                (send_log'[i] = "attempt" /\ i > 1) => send_log'[i - 1] = "recover"
          /\ Count(send_log', "recover") <= 2
          /\ (spc = "attempt" /\ spc' = "returned" /\ send_result' = "True")
             => send_log'[Len(send_log')] = "save"
          /\ (spc = "attempt" /\ Count(send_log, "attempt") = 3)
             => (spc' \in {"attempt", "returned"} /\ send_log'[Len(send_log')] # "recover")
          /\ (spc = "attempt" /\ spc' = "recover") => Count(send_log, "attempt") < 3]_vars

\* C12 witness: the call returned false after three attempts and two
\* recoveries.
C12_Witness ==
    /\ service = "selenium"
    /\ spc = "returned"
    /\ send_result = "False"
    /\ send_log = <<"attempt", "recover", "attempt", "recover", "attempt">>

\* C17: at most one polling loop is alive, after any sequence of toggles,
\* starts and stops.
C17_OnePollingLoop ==
    Cardinality({k \in StartIds : Alive(k)}) <= 1

\* C18: stop() signals the loop, waits for it, then releases the session, and
\* the release never begins while a send attempt is in progress.
C18_NoReleaseDuringSend ==
    [][(stoppc = "release" /\ stoppc' = "releasing")
          => (~is_running /\ stop_event /\ <<"send", 0>> \notin driver_ops)]_vars

\* C19: when send_message has returned true, the outgoing record is in the
\* Chat Store.
C19_SentIsStored ==
    send_result = "True" => \E i \in DOMAIN db : db[i] = sent_message

\* C20: when the decision task of a surfaced message has been started, the
\* message is in the Chat Store and its [THEM] line is in the context window.
C20_StoredBeforeDecision ==
    dpc["n1"] # "idle"
    => /\ \E i \in DOMAIN db : db[i].direction = "incoming"
       /\ \E i \in DOMAIN whatsapp_conversations["Chen"] :
              whatsapp_conversations["Chen"][i] = [dir |-> "THEM", by |-> "n1"]

\* C21: an utterance "tell <name> <text>" whose name is not an excluded word is
\* routed to the rewrite-and-send path, whatever the slot holds, and the send
\* it makes goes to the conversation <name> (compared in lower case); with an
\* excluded name the utterance never takes the directive path.
C21_TellDirectiveTarget ==
    [][\A u \in Users :
          /\ (upc[u] = "idle" /\ upc'[u] # "idle")
             => LET text == Utterances[utext'[u]]
                IN  /\ (whatsapp_enabled /\ TellMatch(text)
                        /\ potential_contact(text) \notin excluded_tell_words)
                       => (uroute'[u] = "tell" /\ upc'[u] = "rw_check")
                    /\ (TellMatch(text) /\ potential_contact(text) \in excluded_tell_words)
                       => uroute'[u] # "tell"
          /\ (upc[u] = "rw_send" /\ upc'[u] # "rw_send" /\ uroute[u] = "tell")
             => \E s \in sends' \ sends :
                    s.by = u /\ Lower(s.to) = potential_contact(Utterances[utext[u]])]_vars

\* C22: an utterance that reaches the WhatsApp intent test with the integration
\* enabled, the last-active pointer set, at most 15 tokens and no command
\* keyword is sent once, with the assistant prefix, to the pointed conversation
\* and the pointer is cleared; an utterance of more than 15 tokens or with a
\* command keyword makes no quick-reply send and leaves the pointer unchanged.
C22_QuickReplySentAndCleared ==
    [][\A u \in Users :
          /\ (upc[u] = "wa_intent" /\ upc'[u] # "wa_intent")
             => LET text == Utterances[utext[u]]
                IN  /\ (whatsapp_enabled /\ last_whatsapp_contact # None
                        /\ Len(text) <= QuickReplyMaxTokens /\ ~ContainsKeyword(text))
                       => upc'[u] = "quick_send"
                    /\ (Len(text) > QuickReplyMaxTokens \/ ContainsKeyword(text))
                       => /\ upc'[u] # "quick_send"
                          /\ UNCHANGED <<send_threads, last_whatsapp_contact>>
          /\ (upc[u] = "quick_send" /\ upc'[u] # "quick_send")
             => /\ \E r \in send_threads' \ send_threads :
                       r.by = u /\ r.kind = "quick" /\ r.to = last_whatsapp_contact
                /\ last_whatsapp_contact' = None
          /\ \A r \in send_threads \ send_threads' :
                (r.by = u /\ r.kind = "quick")
                => \E s \in sends' \ sends :
                       /\ s.by = u /\ s.to = r.to /\ s.text = "prefixed"
                       /\ sends' = sends \cup {s}]_vars

\* The texts listed by a result of _get_user_context_text.
ListedTexts(result) == [i \in 1..(Len(result) - 1) |-> result[i + 1][2]]

\* C23: the pool holds exactly the (at most 30) most recently appended
\* entries, in append order and whatever their age; the text read from it
\* lists exactly the stored entries less than 300 seconds old, in append
\* order, or is the sentinel when there are none.
C23_PoolByCapacityReadByAge ==
    LET n == Len(user_context)
        fresh == {i \in 1..n : now - user_context[i].timestamp < RecentSeconds}
    IN  /\ n = IF context_appends < max_user_context
               THEN context_appends ELSE max_user_context
        /\ \A i \in 1..n : user_context[i].text = context_appends - n + i
        /\ user_context_text # <<>>
           => IF fresh = {}
              THEN user_context_text = NoRecentContext
              ELSE /\ user_context_text # NoRecentContext
                   /\ Len(user_context_text) = Cardinality(fresh) + 1
                   /\ {ListedTexts(user_context_text)[j] :
                          j \in 1..(Len(user_context_text) - 1)}
                      = {user_context[i].text : i \in fresh}
                   /\ \A j \in 1..(Len(user_context_text) - 2) :
                          ListedTexts(user_context_text)[j]
                          < ListedTexts(user_context_text)[j + 1]

\* C23 witness: more than 30 utterances were appended, the full pool still
\* holds an entry that is 300 seconds old or more, and the text read lists some
\* of the entries but not all.
C23_Witness ==
    /\ context_appends > max_user_context
    /\ Len(user_context) = max_user_context
    /\ \E i \in DOMAIN user_context : now - user_context[i].timestamp >= RecentSeconds
    /\ Len(user_context_text) > 1
    /\ Len(user_context_text) - 1 < Len(user_context)

\* C24: a decision that ended in a failure (fewer than 3 lines, fewer than 5
\* lines for an auto-reply, or an error of the Completion Service) has shown a
\* text to the user.
C24_DecisionFailureShown ==
    \A n \in Notifs :
        (/\ dpc[n] = "done"
         /\ \/ dresp[n] = 0
            \/ DecisionBranch(ParseLines(Responses[dresp[n]])) \in {"too_few", "too_few_reply"})
        => \E x \in notices : x.by = n

\* C25: when the Completion Service call of a decision raises, the decision
\* ends there: it shows the error, makes no send, leaves the Pending Reply Slot
\* and the last-active pointer as they were, and is never resumed.
C25_CompletionErrorHardFailure ==
    [][\A n \in Notifs :
          /\ (dpc[n] = "call" /\ dpc'[n] # "call" /\ dresp'[n] = 0)
             => /\ dpc'[n] = "done"
                /\ UNCHANGED <<sends, send_threads, waiting_for_whatsapp_reply,
                               pending_whatsapp_message, last_whatsapp_contact,
                               whatsapp_conversations>>
                /\ \E x \in notices' : x.by = n /\ x.kind = "decision_error"
          /\ (dpc[n] = "done" /\ dresp[n] = 0)
             => /\ dpc'[n] = "done"
                /\ \A s \in sends' : s.by # n /\ s.src # n
                /\ pending_whatsapp_message'.src # n]_vars

\* C25 witness: the decision of n1 failed on the Completion Service call while
\* the slot awaited a reply to the message of n2 and the pointer was set; both
\* are still as the decision of n2 left them.
C25_Witness ==
    /\ dpc["n1"] = "done" /\ dresp["n1"] = 0
    /\ \E x \in notices : x.by = "n1" /\ x.kind = "decision_error"
    /\ waiting_for_whatsapp_reply
    /\ pending_whatsapp_message = PendingRecord("n2")
    /\ last_whatsapp_contact = "Team"

\* C26: an exception raised while one chat of the list is scanned or read does
\* not end the cycle: the scan goes on with the next chat, a chat scanned after
\* the failed one is compared and read as in a cycle without failure, and when
\* the cycle is over every message it collected has been surfaced.
C26_ChatFailureKeepsCycle ==
    [][/\ (ppc = "scan" /\ scan_idx <= Len(ChatOrder) /\ scan_idx <= ScanLimit
             /\ <<ppc, scan_idx>>' # <<ppc, scan_idx>>)
          => LET c == ChatOrder[scan_idx]
             IN  /\ ppc' = "scan"
                 /\ scan_idx' = scan_idx + 1
                 /\ (scan_errors # {} /\ scan_errors' = scan_errors /\ OpensChat(c))
                    => /\ new_messages' =
                              new_messages \o ReadCurrentChatMessages(c).messages
                       /\ last_message_previews'[c] = ChatPreview(c)
       /\ (ppc = "scan" /\ ppc' # "scan")
          => (scan_idx > Len(ChatOrder) \/ scan_idx > ScanLimit)
       /\ ppc' = "sleep"
          => \A i \in DOMAIN new_messages' :
                 \E j \in DOMAIN surfaced' : surfaced'[j] = new_messages'[i]]_vars

\* C26 witness: in the cycle that just ended the first chat of the list raised
\* and a message of the second chat, read after it, was surfaced.
C26_Witness ==
    /\ ppc = "sleep"
    /\ ChatOrder[1] \in scan_errors
    /\ \E i \in DOMAIN new_messages :
          /\ new_messages[i].chat = ChatOrder[2]
          /\ \E j \in DOMAIN surfaced : surfaced[j] = new_messages[i]

\* A poll cycle of loop k is in progress: _check_for_new_messages has been
\* called (it may still wait for the lock) or the bridge is being polled.
InCycle(k) == loops[k] \in {"wait", "scan"}

C28_NoCycleAfterStop ==
    [][\A k \in signalled : ~(~InCycle(k) /\ InCycle(k)')]_vars

\* C29: the steps that process the incoming message of notification n (its
\* notification, its decision, its auto-reply) leave the context window of
\* every conversation other than that of the message unchanged.
C29_OnlyOwnWindowMutated ==
    [][\A n \in Notifs :
          dpc'[n] # dpc[n]
          => \A c \in Contacts \ {Notification(n).chat_name} :
                 whatsapp_conversations'[c] = whatsapp_conversations[c]]_vars

\* C30: when a general-conversation answer contains a well-formed send
\* directive and the integration is enabled, a send to the contact of the
\* directive with its message is requested, and the text shown and spoken to
\* the user contains no directive token.
C30_DirectiveExecutedAndStripped ==
    [][\A u \in Users :
          (/\ upc[u] = "general" /\ upc'[u] # "general"
           /\ whatsapp_enabled
           /\ ai_response'[u].r # 0
           /\ \E i \in DOMAIN AiResponses[ai_response'[u].r] :
                  AiResponses[ai_response'[u].r][i].contact # None)
          => LET response_text == AiResponses[ai_response'[u].r]
                 shown == ai_response'[u].shown
             IN  /\ \E req \in send_threads' \ send_threads :
                        /\ req.by = u
                        /\ \E i \in DOMAIN response_text :
                               /\ req.to = response_text[i].contact
                               /\ req.text = response_text[i].message
                 /\ \A i \in DOMAIN shown : shown[i].contact = None]_vars

(***************************************************************************)
(* Properties of the Chat Store (checked under StoreSpec)                  *)
(***************************************************************************)

\* What a row is apart from its read flag.
Unflagged(r) == [r EXCEPT !.is_read = FALSE]

\* C31: after mark_chat_read(c) get_unread_messages returns no message of
\* conversation c, and after mark_message_read(id) it does not return the
\* message with that id; either call leaves the read flags of the messages of
\* other conversations (of other ids) and every other column of every row as
\* they were; a from-me message is never returned as unread.
C31_ReadMarking ==
    [][/\ store_call'.op = "mark_chat_read" =>
            /\ \A r \in get_unread_messages(messages') :
                   r.chat_name # store_call'.chat_name
            /\ {r \in messages' : r.chat_name # store_call'.chat_name}
                   = {r \in messages : r.chat_name # store_call'.chat_name}
            /\ {Unflagged(r) : r \in messages'} = {Unflagged(r) : r \in messages}
       /\ store_call'.op = "mark_message_read" =>
            /\ \A r \in get_unread_messages(messages') : r.id # store_call'.id
            /\ {r \in messages' : r.id # store_call'.id}
                   = {r \in messages : r.id # store_call'.id}
            /\ {Unflagged(r) : r \in messages'} = {Unflagged(r) : r \in messages}
       /\ store_call'.op = "get_unread_messages" =>
            /\ unread_result' = get_unread_messages(messages)
            /\ \A r \in unread_result' : ~r.is_from_me
            /\ store_call.op = "mark_chat_read" =>
                   \A r \in unread_result' : r.chat_name # store_call.chat_name
            /\ store_call.op = "mark_message_read" =>
                   \A r \in unread_result' : r.id # store_call.id]_vars

\* mark_chat_read(c) has just been called: an incoming message of c is stored
\* as read, an incoming message of another conversation is still unread, and
\* a from-me row of c is stored with is_read = 0.
C31_Witness ==
    /\ store_call.op = "mark_chat_read"
    /\ \E r \in messages, q \in messages, o \in messages :
           /\ r.chat_name = store_call.chat_name /\ r.is_read /\ ~r.is_from_me
           /\ q.chat_name # store_call.chat_name /\ ~q.is_read /\ ~q.is_from_me
           /\ o.chat_name = store_call.chat_name /\ o.is_from_me /\ ~o.is_read

(***************************************************************************)
(* Properties of the pending-reply resolution, continued                   *)
(***************************************************************************)

\* The pending record of notification n has been consumed: the utterance of
\* a thread that took the pending-reply path and has returned was rewritten
\* and sent as the reply to it, and the decision thread of n has ended.
Consumed(n) ==
    /\ dpc[n] = "done"
    /\ \E s \in sends :
           /\ s.kind = "rewrite" /\ s.src = n /\ s.ok
           /\ uroute[s.by] = "pending" /\ upc[s.by] = "done"

\* C32: one SHOULD_SEND=NO notification leads to at most one utterance being
\* sent to its conversation: once the pending record of the only incoming
\* message has been consumed by an utterance, no utterance is handed to a send
\* thread as a quick reply to that conversation (under UtteranceSpec no other
\* message sets the last-active pointer again).
C32_OneUtterancePerNotification ==
    [][Consumed("n1")
          => \A q \in send_threads' \ send_threads :
                 ~(q.kind = "quick" /\ q.to = Notification("n1").chat_name)]_vars

\* C38: every run of _process_user_message that has emitted the status
\* "Processing" has emitted "Idle" as its last status when it ends, whatever
\* path it took.
C38_ProcessingEndsIdle ==
    \A u \in Users :
        (upc[u] = "done" /\ status_updates[u] # <<>>)
        => status_updates[u][Len(status_updates[u])] = "Idle"

\* C33: a pending record set by a SHOULD_SEND=NO outcome while the
\* rewrite-and-send of an earlier reply or of a tell directive is in progress
\* is still in the slot, with the slot awaiting, after that rewrite-and-send
\* has finished: the end of an older consumption clears no newer record.
C33_OlderConsumptionKeepsNewerRecord ==
    [][\A u \in Users :
          (/\ upc[u] \in {"rw_ok", "rw_fail", "rw_except", "clr_rec"}
           /\ Awaiting
           /\ pending_whatsapp_message.src \in Notifs
           /\ pending_whatsapp_message.src # uloc[u].src)
          => (/\ waiting_for_whatsapp_reply'
              /\ pending_whatsapp_message' = pending_whatsapp_message)]_vars

\* C34: a tell directive processed while the slot is awaiting a reply leaves
\* the slot as it was: from the start of the directive to its return the slot
\* stays awaiting with the same record, as long as no decision thread writes it.
C34_TellKeepsAwaitingRecord ==
    [][\A u \in Users :
          (/\ Awaiting
           /\ pending_whatsapp_message.src \in Notifs
           /\ \/ Begins(u) /\ uroute'[u] = "tell"
              \/ uroute[u] = "tell" /\ upc[u] \notin {"idle", "done"}
                   /\ upc'[u] # upc[u])
          => (/\ waiting_for_whatsapp_reply'
              /\ pending_whatsapp_message' = pending_whatsapp_message)]_vars

\* C35: in the rewrite-and-send path, a send that returned true is followed
\* by a sent confirmation and by no error or failure notice: when the run has
\* returned, the user has been shown the confirmation and nothing else.
C35_SentIsConfirmed ==
    \A s \in sends :
        (s.kind = "rewrite" /\ s.ok /\ upc[s.by] = "done")
        => /\ \E m \in notices : m.by = s.by /\ m.kind = "sent"
           /\ \A m \in notices :
                  m.by = s.by => m.kind \notin {"rewrite_error", "send_failed"}

(***************************************************************************)
(* Properties of the connector services, continued                         *)
(***************************************************************************)

\* C36: one call of send_message of WhatsAppService submits the message text
\* to the connector at most once, whatever fails after the submission.
C36_SubmittedAtMostOnce ==
    service = "selenium" => Count(send_log, "submit") <= 1

(***************************************************************************)
(* Properties of the Change Detector, continued (PollFairSpec)             *)
(***************************************************************************)

\* The last message of conversation c is incoming and has not been surfaced.
Unsurfaced(c) ==
    /\ convo[c] # <<>>
    /\ ~convo[c][Len(convo[c])].from_me
    /\ \A j \in DOMAIN surfaced :
           ~(surfaced[j].chat = c /\ surfaced[j].idx = Len(convo[c]))

\* The cycle that just ended detected the preview change of c and opened the
\* chat (its unread indicator is gone, its fingerprint is the current
\* preview), but the open or the read raised: the last message of c, which
\* differs from the last-seen content, was not collected.
MissedRead(c) ==
    /\ ppc = "sleep"
    /\ c \in scan_errors
    /\ ~unread[c]
    /\ Unsurfaced(c)
    /\ last_message_previews[c] = ChatPreview(c)
    /\ last_seen_messages[c] # convo[c][Len(convo[c])].text

\* A later cycle in which the processing of some chat raises.
FailsAgain == ppc = "scan" /\ scan_errors # {}

\* C37: a message whose read failed in the cycle that detected it is not
\* missed for good: unless a later cycle fails too or the conversation (and
\* so its preview) changes, some later cycle surfaces it.
C37_MissedReadIsRetried ==
    \A c \in Chats : \A k \in 1..(MaxArrivals + 1) :
        (MissedRead(c) /\ Len(convo[c]) = k)
            ~> (~Unsurfaced(c) \/ Len(convo[c]) # k \/ FailsAgain)

(***************************************************************************)
(* Properties of the Conversation Context Window under concurrent appends  *)
(* (HistoryRaceSpec)                                                       *)
(***************************************************************************)

\* C39: whatever the interleaving of concurrent _add_to_conversation_history
\* calls for one contact, a line that was appended is in the window until 50
\* newer lines have been appended.
C39_NoAppendedLineLost ==
    \A k \in 1..appends[RaceContact] :
        k > appends[RaceContact] - max_history_per_contact
        => \E i \in DOMAIN whatsapp_conversations[RaceContact] :
               whatsapp_conversations[RaceContact][i].by = k

====
